---- MODULE Spec2Model ----
(***************************************************************************)
(* A model of vmchroma (emkaix/voicemeeter-chroma): the signature scanner, *)
(* the code-cave allocator, the scroll patch, the hook bring-up and the    *)
(* geometry hooks of the injected DLL.                                     *)
(*                                                                         *)
(* Pointers into the main module are modelled as byte offsets from the     *)
(* module base (offset 0 is the first byte of the image).  A pointer that  *)
(* may be null, and a std::optional, is a record [has, val]: None for      *)
(* nullptr / std::nullopt.  bytes[a + 1] is the byte at offset a.          *)
(***************************************************************************)
EXTENDS Integers, Sequences, FiniteSets, TLC

VARIABLES
    fin,        \* utility functions: the arguments of the call under study
    fout,       \* utility functions: what the call produced (done = FALSE before it)
    arch,       \* the build: "x64" (_WIN64 defined) or "x86"
    sects,      \* the section table of the host's main module
    mem0,       \* the image of the host's main module as it was loaded
    mem,        \* the image of the host's main module now
    rw,         \* the offsets whose protection is PAGE_EXECUTE_READWRITE
    pp,         \* apply_scroll_patch: its position, locals and what it did
    pc,         \* the position inside the hooked procedure that is running
    ps,         \* the process: state, message boxes shown, exit code
    hk,         \* Detours: the transaction, the active hooks, the o_* pointers
    cm,         \* init_entered and what config_manager loaded
    hist,       \* what the hooked entry points did so far
    wm,         \* window_manager: the tracked windows and the primary window's sizes
    wnd,        \* the windows as the system has them: sizes, placements, redraws
    ev,         \* the last call that reached a geometry hook: what came in and went out
    registry,   \* the registry values config_manager keeps the window size in
    call,       \* the last call that reached one of the other hooks: arguments and results
    file_version_buffer,  \* the alias hk_VerQueryValueW answers with; empty for none
    scroll_value,         \* the step the thunk multiplies with, in tenths
    dispatch,             \* the messages hk_WndProc_main is handling, innermost last
    dcs                   \* the device context the host holds for a window, from GetDC

fnVars == <<fin, fout>>
imgVars == <<arch, sects, mem0>>
patchVars == <<mem, rw, pp>>
hostVars == <<ps, hk, cm, hist>>
geoVars == <<wm, wnd, ev>>
layerVars == <<file_version_buffer, scroll_value, dispatch, dcs>>
envVars == <<registry, call, layerVars>>
vars == <<fnVars, imgVars, patchVars, pc, hostVars, geoVars, envVars>>

(***************************************************************************)
(* Bounds of the model.                                                    *)
(***************************************************************************)
MaxImgLen == 4      \* longest image scanned by find_signatures
MaxPatLen == 3      \* longest signature given to find_signatures
MaxCaveReq == 3     \* largest size asked of find_code_cave
MaxTail == 4        \* bytes of memory modelled after the end of .text
MaxAttempts == 2    \* creations of the primary window (scroll-patch attempts)
MaxCount == 2       \* cap of the event counters kept in hist and hk
MaxNested == 1      \* calls of CreateMutexA made from inside the bring-up block
MaxLogical == 4     \* largest width and height of the primary window's logical size

ScanBytes == {0, 1}         \* the byte values scanned images are built from
MaskChars == {"x", "?"}     \* 'x' (compare) and '?' (wildcard)

None == [has |-> FALSE, val |-> 0]
Some(v) == [has |-> TRUE, val |-> v]

Min(a, b) == IF a < b THEN a ELSE b

SeqRange(s) == {s[k] : k \in 1..Len(s)}

SeqsUpTo(S, lo, hi) == UNION {[1..n -> S] : n \in lo..hi}

(***************************************************************************)
(* utils::find_signatures (utils.cpp 185-228).                             *)
(*                                                                         *)
(* `end - pattern_size` is computed in size_t.  When the pattern is longer *)
(* than the image the subtraction wraps to 2^w - (pattern_size - end),     *)
(* which is larger than every index the model visits, so the loop          *)
(* condition `i <= end - pattern_size` is then true for all of them.       *)
(***************************************************************************)
loop_bound_wraps(end, pattern_size) == pattern_size > end

loop_continues(i, end, pattern_size) ==
    IF loop_bound_wraps(end, pattern_size) THEN TRUE ELSE i <= end - pattern_size

\* The inner loop at offset i: the first j (0-based) at which the code reads
\* start[i + j] and either leaves the image or finds a different byte;
\* pattern_size when the inner loop runs to its end (found stays true).
first_stop(sig, img, i) ==
    LET psize == Len(sig.pattern)
        stops == {j \in 0..(psize - 1) :
                    /\ sig.mask[j + 1] # "?"
                    /\ \/ i + j >= Len(img)
                       \/ sig.pattern[j + 1] # img[i + j + 1]}
    IN IF stops = {} THEN psize
       ELSE CHOOSE j \in stops : \A k \in stops : j <= k

\* The k-th pushed element is the k-th smallest offset visited with a match.
Ascending(S) ==
    [k \in 1..Cardinality(S) |-> CHOOSE x \in S : Cardinality({y \in S : y < x}) = k - 1]

\* The outer loop: i runs upwards from 0 and every offset at which the inner
\* loop runs to its end is pushed.  A read of start[i + j] at or past the end
\* of the image is undefined behaviour; it can only happen when the loop
\* bound wrapped, and the loop then runs over the whole address space, so
\* the only outcome a build produces is a fault (an access violation, or,
\* for a signature of wildcards only, the exhaustion of memory by the
\* growing vector): the first offset at which that happens ends the scan.
scan_loop(sig, img) ==
    LET end == Len(img)
        psize == Len(sig.pattern)
        leaves(i) == first_stop(sig, img, i) < psize /\ i + first_stop(sig, img, i) >= end
        faults == IF loop_bound_wraps(end, psize)
                  THEN {i \in 0..end : leaves(i) \/ i >= end}
                  ELSE {}
        stop_at == IF faults = {} THEN end - psize + 1
                   ELSE CHOOSE i \in faults : \A k \in faults : i <= k
        hits == {i \in 0..(stop_at - 1) :
                    loop_continues(i, end, psize) /\ first_stop(sig, img, i) = psize}
    IN [occ |-> Ascending(hits),
        fault |-> faults # {},
        oob |-> faults # {} /\ leaves(stop_at)]

\* `resolved` is whether GetModuleHandle and GetModuleInformation succeeded;
\* when they did not, the empty vector is returned before any byte is read.
find_signatures(sig, img, resolved) ==
    IF ~resolved THEN [occ |-> <<>>, fault |-> FALSE, oob |-> FALSE]
    ELSE scan_loop(sig, img)

(***************************************************************************)
(* utils::find_code_cave (utils.cpp 313-345).                              *)
(* A section is [name, va, vsize]; a name is a sequence of characters.     *)
(***************************************************************************)
DotText == <<".", "t", "e", "x", "t">>
DataName == <<".", "d", "a", "t", "a">>
RdataName == <<".", "r", "d", "a", "t", "a">>
NoSections == <<>>

\* !strncmp(name, ".text", 5)
is_text_name(name) == Len(name) >= 5 /\ SubSeq(name, 1, 5) = DotText

\* The loop over the section headers: the last header whose name starts with
\* ".text" decides ptr_text_end.
RECURSIVE text_end_from(_, _, _)
text_end_from(sections, k, ptr) ==
    IF k > Len(sections) THEN ptr
    ELSE text_end_from(sections, k + 1,
            IF is_text_name(sections[k].name)
            THEN Some(sections[k].va + sections[k].vsize)
            ELSE ptr)

cave_is_free_unverified(bytes, ptr_text_end, size) == TRUE

\* The verification loop, bytes 0 .. size-1 from ptr_text_end.
cave_is_free(bytes, ptr_text_end, size) ==
    \A i \in 0..(size - 1) : bytes[ptr_text_end + i + 1] = 0

find_code_cave_short_check(sections, bytes, size) ==
    LET ptr_text_end == text_end_from(sections, 1, None)
    IN IF ~ptr_text_end.has THEN None
       ELSE IF ~cave_is_free(bytes, ptr_text_end.val, size - 1) THEN None
       ELSE ptr_text_end

find_code_cave(sections, bytes, size) ==
    LET ptr_text_end == text_end_from(sections, 1, None)
    IN IF ~ptr_text_end.has THEN None
       ELSE IF ~cave_is_free(bytes, ptr_text_end.val, size) THEN None
       ELSE ptr_text_end

(***************************************************************************)
(* Bytes, stores and the machine code of the scroll patch                  *)
(* (utils.cpp 445-636).                                                    *)
(***************************************************************************)
\* Byte k (0 = lowest) of a non-negative value below 2^31.
byte_of(v, k) == IF k >= 4 THEN 0 ELSE (v \div (256 ^ k)) % 256

\* The first n bytes of the little-endian object representation of v; a
\* negative v is stored in two's complement.
le_bytes(v, n) ==
    [k \in 1..n |-> IF v >= 0 THEN byte_of(v, k - 1)
                    ELSE 255 - byte_of((0 - v) - 1, k - 1)]

\* memcpy_s(&bytes[off], Len(src), src, Len(src))
store(bytes, off, src) ==
    [k \in 1..Len(bytes) |->
        IF k - 1 >= off /\ k - 1 < off + Len(src) THEN src[k - off] ELSE bytes[k]]

range_of(off, n) == off..(off + n - 1)

\* &scroll_value, the address the thunk loads (a value below 2^31).
ptr_scroll_value == \h00C0FFEE

\* 64-bit thunk: push rcx; mov rcx, imm64; movss xmm6,[rcx]; mulss xmm0,xmm6;
\* pop rcx; ret.  The address is stored at byte 3.
shellcode_multiply64 ==
    store(<<\h51,
            \h48, \hB9, 0, 0, 0, 0, 0, 0, 0, 0,
            \hF3, \h0F, \h10, \h31,
            \hF3, \h0F, \h59, \hC6,
            \h59,
            \hC3>>, 3, le_bytes(ptr_scroll_value, 8))

\* 32-bit thunk: push eax; mov eax, imm32; fmul [eax]; pop eax; ret.  The
\* address is stored at byte 2.
shellcode_multiply32 ==
    store(<<\h50,
            \hB8, 0, 0, 0, 0,
            \hD8, \h08,
            \h58,
            \hC3>>, 2, le_bytes(ptr_scroll_value, 4))

shellcode_multiply(a) == IF a = "x64" THEN shellcode_multiply64 ELSE shellcode_multiply32

sig_mulss1 ==
    [pattern |-> <<\hF3, \h0F, \h59, \h05, 0, 0, 0, 0, \h0F, \h28, \hF2,
                   \hF3, \h0F, \h5C, \hF0, \h0F, \h2F, \hCE>>,
     mask |-> <<"x","x","x","x","?","?","?","?","x","x","x","x","x","x","x","x","x","x">>]

sig_mulss2 ==
    [pattern |-> <<\hF3, \h0F, \h59, \h05, 0, 0, 0, 0, \hF3, \h0F, \h10, \h94,
                   0, 0, 0, 0, 0, \h0F, \h28, \hF2>>,
     mask |-> <<"x","x","x","x","?","?","?","?","x","x","x","x",
                "?","?","?","?","?","x","x","x">>]

sig_fmul1 ==
    [pattern |-> <<\hD9, 0, 0, 0, \hDB, \h45, 0, \hDC, \h0D>>,
     mask |-> <<"x","?","?","?","x","x","?","x","x">>]

sig_fmul2 ==
    [pattern |-> <<\hD9, 0, 0, 0, 0, 0, 0, \hDB, \h45, 0, \hDC, \h0D>>,
     mask |-> <<"x","?","?","?","?","?","?","x","x","?","x","x">>]

sig_variant1(a) == IF a = "x64" THEN sig_mulss1 ELSE sig_fmul1
sig_variant2(a) == IF a = "x64" THEN sig_mulss2 ELSE sig_fmul2

\* call <shellcode_multiply> followed by the padding no-ops.
shellcode_call(a) ==
    IF a = "x64" THEN <<\hE8, 0, 0, 0, 0, \h90, \h90, \h90>>
    ELSE <<\hE8, 0, 0, 0, 0, \h90>>

\* The two addresses patched, from the merged matches: mulss1 / mulss2 are
\* the matches themselves, fmul1 / fmul2 are merged[0] + 7 and merged[1] + 10.
patch_site1(a, merged) == IF a = "x64" THEN merged[1] ELSE merged[1] + 7
patch_site2(a, merged) == IF a = "x64" THEN merged[2] ELSE merged[2] + 10

\* if (merged.size() != 2) return false;
match_count_ok_at_least(merged) == Len(merged) >= 2
match_count_ok(merged) == Len(merged) = 2

\* The call written at `site`: offset = ptr_text_end - (site + 5), its low 4
\* bytes stored at byte 1 of shellcode_call.
call_bytes(a, ptr_text_end, site) ==
    store(shellcode_call(a), 1, le_bytes(ptr_text_end - (site + 5), 4))

(***************************************************************************)
(* The images of the host's main module the patch is run against: a .text  *)
(* section holding up to three call sites (each of signature variant 1 or  *)
(* 2), followed by its zero padding and a non-zero byte.                   *)
(***************************************************************************)
Filler == <<\hCC, \hCC>>

\* A signature with its wildcard bytes holding w.
Instance(sig, w) ==
    [k \in 1..Len(sig.pattern) |-> IF sig.mask[k] = "?" THEN w ELSE sig.pattern[k]]

\* The code of a call site.  The 32-bit signatures end with the opcode of
\* fmul qword ptr [imm32] (DC 0D); its operand follows the match.
SiteCode(a, variant, w) ==
    IF variant = "none" THEN <<>>
    ELSE IF a = "x64"
    THEN Instance(IF variant = "v1" THEN sig_mulss1 ELSE sig_mulss2, w) \o Filler
    ELSE Instance(IF variant = "v1" THEN sig_fmul1 ELSE sig_fmul2, w) \o <<w, w, w, w>> \o Filler

TextCode(a, slots) ==
    Filler \o SiteCode(a, slots[1], \h11) \o SiteCode(a, slots[2], \h22)
           \o SiteCode(a, slots[3], \h33)

Zeros(n) == [k \in 1..n |-> 0]

ImageOf(a, slots, zrun) == TextCode(a, slots) \o Zeros(zrun) \o <<\hAA, \hAA>>

SectionsOf(a, slots) ==
    <<[name |-> DotText, va |-> 0, vsize |-> Len(TextCode(a, slots))],
      [name |-> RdataName, va |-> Len(TextCode(a, slots)) + 32, vsize |-> 2]>>

Variants == {"none", "v1", "v2"}
Archs == {"x64", "x86"}

\* The length, in bytes, of the multiply instruction the patch replaces, and
\* its offset inside a match of the given variant.
InstrLen(a) == IF a = "x64" THEN 8 ELSE 6
InstrOffset(a, variant) == IF a = "x64" THEN 0 ELSE IF variant = "v1" THEN 7 ELSE 10
(***************************************************************************)
(* Hooks.  A hook is named after the function it redirects; o_X is the     *)
(* pointer the replacement calls the original through: "null", "raw" (the  *)
(* address of the function itself) or "tramp" (the trampoline Detours      *)
(* stores into it when the attach is committed).                           *)
(***************************************************************************)
\* static std::vector hooks_base / hooks_theme
hooks_base ==
    <<"AppendMenuA", "RegisterClassA", "Rectangle", "BeginPaint", "SetTimer", "GetDC",
      "ReleaseDC", "SetWindowPos", "CreateWindowExA", "DialogBoxIndirectParamA",
      "TrackPopupMenu", "GetClientRect", "CoCreateInstance", "InternalGetWindowText",
      "GetFileVersionInfoW", "VerQueryValueW", "OpenProcess">>

hooks_theme ==
    <<"CreateFontIndirectA", "CreatePen", "CreateBrushIndirect", "SetTextColor",
      "CreateDIBSection">>

\* The o_* pointers that start as nullptr and are bound at run time.
WndProcSlots == {"WndProc_main", "WndProc_comp", "WndProc_denoiser", "WndProc_wdb"}
AudioSlots == {"GetSessionEnumerator", "GetSession", "GetProcessId", "IsSystemSoundsSession"}
LateSlots == WndProcSlots \cup AudioSlots

BaseHooks == SeqRange(hooks_base)
ThemeHooks == SeqRange(hooks_theme)
AllHooks == {"CreateMutexA"} \cup BaseHooks \cup ThemeHooks \cup LateSlots

Bump(n) == Min(n + 1, MaxCount)

\* Detours, as the code uses it.  A call returns the new state and whether
\* its result differs from NO_ERROR.
\* DetourTransactionBegin: refused while a transaction is pending.
DetourTransactionBegin(h) ==
    IF h.pending THEN [h |-> h, err |-> TRUE]
    ELSE [h |-> [h EXCEPT !.pending = TRUE, !.error = FALSE, !.staged = {}], err |-> FALSE]

\* DetourUpdateThread(GetCurrentThread()): the calling thread is never
\* suspended; the result is the transaction's pending error.
DetourUpdateThread(h) == [h |-> h, err |-> ~h.pending \/ h.error]

\* DetourAttach(&o_X, hk_X): stages the redirection; nothing is written to
\* the target or to o_X before the commit.  A failure (o_X is null, or `ok`
\* is false: no trampoline can be built) becomes the pending error.
DetourAttach(h, slot, ok) ==
    IF ~h.pending \/ h.error THEN [h |-> h, err |-> TRUE]
    ELSE IF h.optr[slot] = "null" \/ ~ok
    THEN [h |-> [h EXCEPT !.error = TRUE], err |-> TRUE]
    ELSE [h |-> [h EXCEPT !.staged = @ \cup {slot}], err |-> FALSE]

\* DetourTransactionCommit: with a pending error the transaction is aborted;
\* otherwise every staged redirection takes effect and the transaction ends.
DetourTransactionCommit(h) ==
    IF ~h.pending THEN [h |-> h, err |-> TRUE]
    ELSE IF h.error
    THEN [h |-> [h EXCEPT !.pending = FALSE, !.error = FALSE, !.staged = {}], err |-> TRUE]
    ELSE [h |-> [h EXCEPT !.pending = FALSE, !.staged = {},
                          !.active = @ \cup h.staged,
                          !.optr = [s \in AllHooks |->
                                      IF s \in h.staged THEN "tramp" ELSE h.optr[s]],
                          !.attaches = [s \in AllHooks |->
                                      IF s \in h.staged THEN Bump(h.attaches[s])
                                      ELSE h.attaches[s]]],
          err |-> FALSE]

\* utils::hook_single_fn (utils.cpp 644-671).
hook_single_fn(h, slot, attach_ok) ==
    LET b == DetourTransactionBegin(h)
        u == DetourUpdateThread(b.h)
        a == DetourAttach(u.h, slot, attach_ok)
        c == DetourTransactionCommit(a.h)
    IN IF b.err THEN [h |-> b.h, ret |-> FALSE]
       ELSE IF u.err THEN [h |-> u.h, ret |-> FALSE]
       ELSE IF a.err THEN [h |-> a.h, ret |-> FALSE]
       ELSE IF c.err THEN [h |-> c.h, ret |-> FALSE]
       ELSE [h |-> c.h, ret |-> TRUE]

\* One of the two loops of apply_hooks, from record k of `hooks` on; the
\* attach of the record whose number in the whole batch is fail_at fails.
RECURSIVE attach_loop(_, _, _, _, _)
attach_loop(h, hooks, k, first, fail_at) ==
    IF k > Len(hooks) THEN [h |-> h, err |-> FALSE]
    ELSE IF h.optr[hooks[k]] = "null" THEN attach_loop(h, hooks, k + 1, first, fail_at)
    ELSE LET a == DetourAttach(h, hooks[k], first + k - 1 # fail_at)
         IN IF a.err THEN a ELSE attach_loop(a.h, hooks, k + 1, first, fail_at)

\* apply_hooks of a version that commits what it staged before it gives up.
apply_hooks_partial(h, theme_enabled, fail_at) ==
    LET b == DetourTransactionBegin(h)
        l1 == attach_loop(b.h, hooks_base, 1, 1, fail_at)
        l2 == IF theme_enabled
              THEN attach_loop(l1.h, hooks_theme, 1, Len(hooks_base) + 1, fail_at)
              ELSE l1
    IN IF b.err THEN [h |-> b.h, ret |-> FALSE]
       ELSE [h |-> DetourTransactionCommit([l2.h EXCEPT !.error = FALSE]).h, ret |-> ~l2.err]

\* apply_hooks (part_001 1424-1457).
apply_hooks(h, theme_enabled, fail_at) ==
    LET b == DetourTransactionBegin(h)
        u == DetourUpdateThread(b.h)
        l1 == attach_loop(u.h, hooks_base, 1, 1, fail_at)
        l2 == IF theme_enabled
              THEN attach_loop(l1.h, hooks_theme, 1, Len(hooks_base) + 1, fail_at)
              ELSE l1
        c == DetourTransactionCommit(l2.h)
    IN IF b.err THEN [h |-> b.h, ret |-> FALSE]
       ELSE IF u.err THEN [h |-> u.h, ret |-> FALSE]
       ELSE IF l1.err THEN [h |-> l1.h, ret |-> FALSE]
       ELSE IF l2.err THEN [h |-> l2.h, ret |-> FALSE]
       ELSE IF c.err THEN [h |-> c.h, ret |-> FALSE]
       ELSE [h |-> c.h, ret |-> TRUE]

\* The records apply_hooks is asked to install.
Batch(theme_enabled) == BaseHooks \cup (IF theme_enabled THEN ThemeHooks ELSE {})

(***************************************************************************)
(* Bring-up (part_001 221-254) and the message box helpers (utils.cpp).    *)
(***************************************************************************)
\* utils::mbox_error without the call of exit.
mbox_error_returns(p) == [p EXCEPT !.mbox = Bump(@)]

\* utils::mbox_error (utils.cpp 56-60): the message box, then exit(1).
mbox_error(p) == [p EXCEPT !.mbox = Bump(@), !.state = "exited", !.exit_code = 1]

\* utils::setup_logging (utils.cpp 285-311); log_ok: the profile path was
\* found and converted and the logger was created.
setup_logging(p, log_ok) == IF log_ok THEN p ELSE mbox_error(p)

\* hk_CreateMutexA without the assignment of init_entered.
mark_entered_skipped(c) == c

\* init_entered = true;
mark_entered(c) == [c EXCEPT !.init_entered = TRUE]

\* hk_CreateMutexA.  env: log_ok, cfg_ok (load_config), theme_ok
\* (init_theme), theme_enabled (what init_theme leaves in theme_enabled),
\* fail_at (the record of the batch whose attach fails, 0: none).
\* `orig`: the call reached `return o_CreateMutexA(...)`; `started`: the call
\* entered the bring-up block.
hk_CreateMutexA(p, h, c, env) ==
    LET c1 == mark_entered(c)
        p1 == setup_logging(p, env.log_ok)
        pcfg == mbox_error(p1)
        c2 == [c1 EXCEPT !.theme_enabled = env.theme_enabled]
        ah == apply_hooks(h, c2.theme_enabled, env.fail_at)
    IN IF c.init_entered
       THEN [ps |-> p, hk |-> h, cm |-> c, fail |-> "none", applied |-> "none", orig |-> TRUE,
             started |-> FALSE]
       ELSE IF p1.state # "running"
       THEN [ps |-> p1, hk |-> h, cm |-> c1, fail |-> "logging", applied |-> "none",
             orig |-> FALSE, started |-> TRUE]
       ELSE IF ~env.cfg_ok
       THEN [ps |-> pcfg, hk |-> h, cm |-> c1, fail |-> "config", applied |-> "none",
             orig |-> pcfg.state = "running", started |-> TRUE]
       ELSE IF ~env.theme_ok
       THEN [ps |-> pcfg, hk |-> h, cm |-> c1, fail |-> "theme", applied |-> "none",
             orig |-> pcfg.state = "running", started |-> TRUE]
       ELSE [ps |-> p1, hk |-> ah.h, cm |-> c2,
             fail |-> IF ah.ret THEN "none" ELSE "hooks",
             applied |-> IF ah.ret THEN "true" ELSE "false", orig |-> TRUE,
             started |-> TRUE]

(***************************************************************************)
(* Late hooking (part_001 1041-1100, 1252-1377).                           *)
(***************************************************************************)
SetPtr(h, slot) == [h EXCEPT !.optr[slot] = "raw"]

\* hk_RegisterClassA; is_main: lpszClassName is the main window's class.
hk_RegisterClassA(h, is_main, attach_ok) ==
    IF is_main THEN hook_single_fn(SetPtr(h, "WndProc_main"), "WndProc_main", attach_ok).h
    ELSE h

\* One of the three blocks of hk_CreateWindowExA.
late_wndproc(h, slot, class_matches, wnd_id, lo, hi, attach_ok) ==
    IF class_matches /\ h.optr[slot] = "null" /\ wnd_id >= lo /\ wnd_id <= hi
    THEN hook_single_fn(SetPtr(h, slot), slot, attach_ok).h
    ELSE h

\* hk_CreateWindowExA; class is "compdenoise", "wdb" or "other".
hk_CreateWindowExA(h, lparam_null, class, wnd_id, attach_ok) ==
    IF lparam_null THEN h
    ELSE LET h1 == late_wndproc(h, "WndProc_denoiser", class = "compdenoise", wnd_id,
                                1200, 1204, attach_ok)
             h2 == late_wndproc(h1, "WndProc_comp", class = "compdenoise", wnd_id,
                                1100, 1104, attach_ok)
         IN late_wndproc(h2, "WndProc_wdb", class = "wdb", wnd_id, 1000, 1002, attach_ok)

\* hk_CoCreateInstance; is_enum: the class and interface asked for are the
\* device enumerator's; acquired: the three calls of the try block succeed.
\* `fwd`: the host's own call was forwarded to o_CoCreateInstance.
hk_CoCreateInstance(h, is_enum, acquired, attach_ok) ==
    IF ~is_enum \/ h.optr["GetSessionEnumerator"] # "null" THEN [h |-> h, fwd |-> TRUE]
    ELSE IF ~acquired THEN [h |-> h, fwd |-> FALSE]
    ELSE [h |-> hook_single_fn(SetPtr(h, "GetSessionEnumerator"), "GetSessionEnumerator",
                               attach_ok).h,
          fwd |-> TRUE]

\* hk_GetSessionEnumerator; acquired: o_GetSessionEnumerator succeeded.  When
\* it did not, the exception is caught and logged and the dispatch table is
\* read through the null session_enumerator: `fault`.
hk_GetSessionEnumerator(h, acquired, attach_ok) ==
    IF h.optr["GetSession"] # "null" THEN [h |-> h, fault |-> FALSE]
    ELSE IF ~acquired THEN [h |-> h, fault |-> TRUE]
    ELSE [h |-> hook_single_fn(SetPtr(h, "GetSession"), "GetSession", attach_ok).h,
          fault |-> FALSE]

\* hk_GetSession; acquired: o_GetSession and QueryInterface succeeded.
hk_GetSession(h, acquired, attach_ok1, attach_ok2) ==
    IF h.optr["GetProcessId"] # "null" \/ h.optr["IsSystemSoundsSession"] # "null"
    THEN [h |-> h, fault |-> FALSE]
    ELSE IF ~acquired THEN [h |-> h, fault |-> TRUE]
    ELSE LET h1 == hook_single_fn(SetPtr(h, "GetProcessId"), "GetProcessId", attach_ok1).h
         IN [h |-> hook_single_fn(SetPtr(h1, "IsSystemSoundsSession"),
                                  "IsSystemSoundsSession", attach_ok2).h,
             fault |-> FALSE]
(***************************************************************************)
(* Geometry: window_manager and the hooks that use it.                     *)
(*                                                                         *)
(* A window is named by what it is: "main" (the primary window), "comp",   *)
(* "denoiser", "wdb" (the secondary windows) and "other".  A point is a    *)
(* record [x, y], a size [w, h], a rectangle [left, top, right, bottom].   *)
(***************************************************************************)
Pt(a, b) == [x |-> a, y |-> b]
Sz(a, b) == [w |-> a, h |-> b]
Rc(l, t, r, b) == [left |-> l, top |-> t, right |-> r, bottom |-> b]

Max(a, b) == IF a > b THEN a ELSE b

\* A window rectangle as CREATESTRUCTA and MoveWindow have it.
Xywh(x, y, cx, cy) == [x |-> x, y |-> y, cx |-> cx, cy |-> cy]

\* The windows of the host the model follows.
Windows == {"main", "comp", "denoiser", "wdb", "other"}

\* window_manager after its construction: no tracked window, no sizes.
wm0 ==
    [hwnd_main |-> "none", tracked |-> {},
     default_cx |-> 0, default_cy |-> 0, cur_cx |-> 0, cur_cy |-> 0,
     d2d |-> Sz(0, 0), placed |-> Sz(0, 0)]

\* window_manager::init_window: a context for hwnd is added to the map.
init_window(w, hwnd) == [w EXCEPT !.tracked = @ \cup {hwnd}]

\* window_manager::is_in_map
is_in_map(w, hwnd) == hwnd \in w.tracked

\* window_manager::set_hwnd_main / get_hwnd_main
set_hwnd_main(w, hwnd) == [w EXCEPT !.hwnd_main = hwnd]

get_hwnd_main(w) == w.hwnd_main

\* window_manager::set_default_main_wnd_size: the logical size.
set_default_main_wnd_size(w, cx, cy) == [w EXCEPT !.default_cx = cx, !.default_cy = cy]

\* window_manager::set_cur_main_wnd_size: the current size.
set_cur_main_wnd_size(w, cx, cy) == [w EXCEPT !.cur_cx = cx, !.cur_cy = cy]

\* window_manager::resize_d2d: the render target of the window gets the size.
resize_d2d(w, size) == [w EXCEPT !.d2d = size]

\* window_manager::resize_child_windows: every secondary window is placed
\* for the current size of the primary window (`placed` is the size they
\* were last placed for).
resize_child_windows(w) == [w EXCEPT !.placed = Sz(w.cur_cx, w.cur_cy)]

\* The primary window as the system has it.
wnd0 == [size |-> Sz(0, 0), noredraw |-> FALSE]

\* The record of the last call that reached a geometry hook.  msg names the
\* message or the hooked function, pin / rin / size are what came in, pout /
\* rout what was handed on or written back, org is where the client area of
\* the window is on the screen, ret the value returned, orig tells that the
\* original was called for this very call, renders counts window_manager::
\* render, placed tells that resize_child_windows ran; x1 and x2 are
\* htclient_x1 and htclient_x2 of the active flavor; saved tells that
\* reg_save_wnd_size was called, cs is the rectangle in the CREATESTRUCTA of a
\* secondary window and moved the rectangle given to MoveWindow.
ev0 ==
    [msg |-> "none", hwnd |-> "none", wparam |-> "none",
     pin |-> Pt(0, 0), pout |-> Pt(0, 0), org |-> Pt(0, 0),
     rin |-> Rc(0, 0, 0, 0), rout |-> Rc(0, 0, 0, 0),
     size |-> Sz(0, 0), reg |-> [has |-> FALSE, w |-> 0, h |-> 0], opt |-> "absent",
     x1 |-> 0, x2 |-> 0,
     ret |-> "none", orig |-> FALSE, renders |-> 0, placed |-> FALSE,
     saved |-> FALSE, cs |-> Xywh(0, 0, 0, 0), moved |-> Xywh(0, 0, 0, 0)]

Event(msg, hwnd) == [ev0 EXCEPT !.msg = msg, !.hwnd = hwnd]

\* What a handler gives back: window_manager, the window and the record.
Handled(w, n, e) == [wm |-> w, wnd |-> n, ev |-> e]

(***************************************************************************)
(* hk_WndProc_main (part_001 558-777), one operator per message.           *)
(***************************************************************************)
\* WM_TIMER with id 12346: the original, then wm->render(hwnd).
hk_WndProc_main_timer(e) == [e EXCEPT !.renders = @ + 1]

\* MulDiv that drops the fraction.
MulDiv_truncating(a, b, c) == IF c = 0 THEN -1 ELSE (a * b) \div c

\* MulDiv of non-negative operands: a * b / c rounded to the nearest integer
\* (halves away from zero), -1 when c is 0.
MulDiv(a, b, c) == IF c = 0 THEN -1 ELSE (a * b + c \div 2) \div c

\* The values of wParam of WM_SIZING: the edge or corner that is dragged.
SizingEdges ==
    {"WMSZ_LEFT", "WMSZ_RIGHT", "WMSZ_TOP", "WMSZ_TOPLEFT", "WMSZ_TOPRIGHT",
     "WMSZ_BOTTOM", "WMSZ_BOTTOMLEFT", "WMSZ_BOTTOMRIGHT"}

\* The width of WM_SIZING without the upper bound.
sizing_width_no_upper(w, rect) == Max(w.default_cx \div 2, rect.right - rect.left)

\* new_width = max(default_cx / 2, min(default_cx, new_width))
sizing_width(w, rect) ==
    Max(w.default_cx \div 2, Min(w.default_cx, rect.right - rect.left))

\* new_height = MulDiv(new_width, default_cy, default_cx)
sizing_height_unclamped(w, new_width) == MulDiv(new_width, w.default_cy, w.default_cx)

\* The height of WM_SIZING without the lower bound.
sizing_height_no_lower(w, new_width) ==
    Min(w.default_cy, sizing_height_unclamped(w, new_width))

\* new_height = max(default_cy / 2, min(default_cy, new_height))
sizing_height(w, new_width) ==
    Max(w.default_cy \div 2, Min(w.default_cy, sizing_height_unclamped(w, new_width)))

\* WM_SIZING of the bottom right corner without resize_child_windows and
\* without the WM_TIMER.
hk_WndProc_main_sizing_corner_size_only(w, n, wparam, rect) ==
    LET new_width == sizing_width(w, rect)
        new_height == sizing_height(w, new_width)
    IN Handled(set_cur_main_wnd_size(w, new_width, new_height), n,
               [Event("WM_SIZING", "main") EXCEPT
                  !.wparam = wparam, !.rin = rect, !.ret = "1",
                  !.rout = [rect EXCEPT !.right = rect.left + new_width,
                                        !.bottom = rect.top + new_height]])

\* WM_SIZING of the bottom right corner (part_001 711-729); the WM_TIMER it
\* sends to the window is handled before SendMessageA returns.
hk_WndProc_main_sizing_corner(w, n, wparam, rect) ==
    LET new_width == sizing_width(w, rect)
        new_height == sizing_height(w, new_width)
        out == [rect EXCEPT !.right = rect.left + new_width,
                            !.bottom = rect.top + new_height]
        w1 == resize_child_windows(set_cur_main_wnd_size(w, new_width, new_height))
        e == [Event("WM_SIZING", "main") EXCEPT
                !.wparam = wparam, !.rin = rect, !.rout = out, !.ret = "1",
                !.placed = TRUE]
    IN Handled(w1, n, hk_WndProc_main_timer(e))

\* WM_SIZING (part_001 705-730).
hk_WndProc_main_sizing(w, n, wparam, rect) ==
    IF wparam # "WMSZ_BOTTOMRIGHT"
    THEN Handled(w, n, [Event("WM_SIZING", "main") EXCEPT
                          !.wparam = wparam, !.rin = rect, !.rout = rect, !.ret = "0"])
    ELSE hk_WndProc_main_sizing_corner(w, n, wparam, rect)

\* WM_SIZE (part_001 732-741): lParam carries the new client size.
hk_WndProc_main_size(w, n, size) ==
    LET w1 == set_cur_main_wnd_size(resize_d2d(w, size), size.w, size.h)
    IN Handled(w1, n, [Event("WM_SIZE", "main") EXCEPT
                         !.size = size, !.orig = TRUE, !.ret = "orig"])

\* config_manager::get_restore_size: the option of the configuration file.
RestoreOpts == {"absent", "true", "false"}

\* restore_size starting from false.
restore_size_default_off(opt) == opt = "true"

\* bool restore_size = true; if (restore_size_opt) restore_size = *restore_size_opt;
restore_size(opt) == IF opt = "absent" THEN TRUE ELSE opt = "true"

\* config_manager::reg_get_wnd_size (part_000 89-145): has is its result, w
\* and h the two DWORD values it read; they are not compared with anything.
NoReg == [has |-> FALSE, w |-> 0, h |-> 0]

RegPair(w, h) == [has |-> TRUE, w |-> w, h |-> h]

\* if (restore_size && cm->reg_get_wnd_size(w, h))
restores(opt, reg) == restore_size(opt) /\ reg.has

\* WM_CREATE up to the call of the original (part_001 631-655, 663); cs is
\* the size in CREATESTRUCTA, which is also the size the window is created with.
hk_WndProc_main_create_enter(w, n, cs, opt, reg) ==
    LET w1 == set_default_main_wnd_size(set_hwnd_main(init_window(w, "main"), "main"),
                                       cs.w, cs.h)
        w2 == IF restores(opt, reg)
              THEN set_cur_main_wnd_size(w1, reg.w, reg.h)
              ELSE set_cur_main_wnd_size(w1, cs.w, cs.h)
    IN Handled(w2, [n EXCEPT !.size = cs, !.noredraw = FALSE],
               [Event("WM_CREATE", "main") EXCEPT
                  !.size = cs, !.opt = opt, !.reg = reg, !.ret = "pending"])

\* o_SetWindowPos(hwnd, nullptr, cs->x, cs->y, w, h, SWP_NOREDRAW): the window
\* gets the size and its procedure handles the WM_SIZE that SetWindowPos
\* sends before it returns (the client area of the primary window is the
\* whole window).
o_SetWindowPos_main(w, n, e, size) ==
    LET r == hk_WndProc_main_size(w, [n EXCEPT !.size = size, !.noredraw = TRUE], size)
    IN Handled(r.wm, r.wnd, e)

\* WM_CREATE from the call of the original on (part_001 655-665).
hk_WndProc_main_create_orig(w, n, e) ==
    LET e1 == [e EXCEPT !.orig = TRUE, !.ret = "orig"]
        size == Sz(e.reg.w, e.reg.h)
        r == o_SetWindowPos_main(w, n, e1, size)
    IN IF restores(e.opt, e.reg)
       THEN Handled(resize_d2d(r.wm, size), r.wnd, r.ev)
       ELSE Handled(w, n, e1)
(***************************************************************************)
(* The other hooks (part_001 353-391, 525-531, 1209-1386): the record of   *)
(* a call.  fn names the hook, args are the caller's arguments, fwd the    *)
(* argument tuples the original was called with (one per call), oret and   *)
(* oout what the original returned and left in the caller's output         *)
(* parameter, ret and out what the hook returned and left there; env is    *)
(* what the calls the hook makes on its own met.  A string is the sequence *)
(* of its characters.                                                      *)
(***************************************************************************)
NoName == [has |-> FALSE, val |-> <<>>]
NoList == [has |-> FALSE, val |-> <<>>]

call0 ==
    [fn |-> "none", args |-> <<>>, fwd |-> <<>>, oret |-> "none", oout |-> "none",
     ret |-> "none", out |-> "none", name |-> NoName, list |-> NoList, env |-> "none"]

Call(fn, args) == [call0 EXCEPT !.fn = fn, !.args = args]

\* static std::wstring file_version_buffer; static float scroll_value = 3.0f;
\* (part_001 202, 208); a step is written in tenths.
file_version_buffer0 == <<>>
scroll_value0 == 30

\* No message is being handled.  stack: the messages handled, innermost
\* last, each with the number of SendMessage calls its handler has made;
\* entered: the handlers entered since the host's message; reads: for every
\* get_wctx since then, whether the window was in the map.
dispatch0 == [stack |-> <<>>, entered |-> 0, reads |-> <<>>]

\* The host holds no device context: "none", or what GetDC returned,
\* "window_dc" from the original or "mem_dc", the off-screen one.
dcs0 == [hwnd \in {"main", "comp", "denoiser", "wdb", "other"} |-> "none"]

(***************************************************************************)
(* hk_GetProcessId (part_001 1209-1250).                                   *)
(***************************************************************************)
MaxList == 2        \* longest appBlacklist

\* The letters image names and appBlacklist entries are written with here.
Letters == {"f", "F", "b"}

\* lstrcmpiW compares without regard to case: the lower-case form of a letter.
fold_case(c) == IF c = "F" THEN "f" ELSE IF c = "B" THEN "b" ELSE c

\* lstrcmpiW(a, b) == 0
lstrcmpiW_equal(a, b) ==
    /\ Len(a) = Len(b)
    /\ \A k \in 1..Len(a) : fold_case(a[k]) = fold_case(b[k])

\* utils::str_to_wstr (utils.cpp 67-84): MultiByteToWideChar gives 0 for a
\* string of no bytes, and the conversion fails; a letter of the ASCII range
\* becomes the wide character of the same code.
str_to_wstr(s) == IF Len(s) = 0 THEN NoName ELSE [has |-> TRUE, val |-> s]

\* The loop over the blacklist, from entry k on: "listed", "unlisted", or
\* "unconverted" when str_to_wstr fails for an entry.
RECURSIVE blacklist_loop(_, _, _)
blacklist_loop(blacklist, k, app_name) ==
    IF k > Len(blacklist) THEN "unlisted"
    ELSE LET wstr == str_to_wstr(blacklist[k])
         IN IF ~wstr.has THEN "unconverted"
            ELSE IF lstrcmpiW_equal(wstr.val, app_name) THEN "listed"
            ELSE blacklist_loop(blacklist, k + 1, app_name)

\* hk_GetProcessId; hr and pid are what o_GetProcessId returned and stored,
\* app_name is get_exe_image_name_for_pid(pid), blacklist_opt is
\* cm->get_app_blacklist().
hk_GetProcessId(hr, pid, app_name, blacklist_opt) ==
    LET c == [Call("GetProcessId", <<>>) EXCEPT
                 !.fwd = << <<>> >>, !.oret = hr, !.oout = pid,
                 !.name = app_name, !.list = blacklist_opt]
    IN IF hr # "S_OK" THEN [c EXCEPT !.ret = hr, !.out = pid]
       ELSE IF ~app_name.has THEN [c EXCEPT !.ret = "S_OK", !.out = pid]
       ELSE IF ~blacklist_opt.has THEN [c EXCEPT !.ret = "S_OK", !.out = pid]
       ELSE IF blacklist_loop(blacklist_opt.val, 1, app_name.val) = "listed"
       THEN [c EXCEPT !.ret = "S_FALSE", !.out = 0]
       ELSE [c EXCEPT !.ret = "S_OK", !.out = pid]

FlavorIds == {"FLAVOR_DEFAULT", "FLAVOR_BANANA", "FLAVOR_POTATO"}

\* get_current_flavor_id (part_000 151-212): std::nullopt when the product
\* name of the executable cannot be read or is not known.
NoFlavor == [has |-> FALSE, val |-> "FLAVOR_NONE"]
SomeFlavor(f) == [has |-> TRUE, val |-> f]

(***************************************************************************)
(* hk_SetTimer, hk_Rectangle (part_001 353-391), hk_SetWindowPos (525-531) *)
(* and hk_OpenProcess (1379-1386).  oret is what the original returns.     *)
(***************************************************************************)
\* Returning what the original returned, called with the tuple given.
Forwarded(c, tuple, oret) == [c EXCEPT !.fwd = <<tuple>>, !.oret = oret, !.ret = oret]

\* hk_SetTimer applying the interval to every timer.
hk_SetTimer_every_id(hWnd, nIDEvent, uElapse, interval, oret) ==
    LET c == Call("SetTimer", <<hWnd, nIDEvent, uElapse>>)
    IN IF interval.has
       THEN Forwarded(c, <<hWnd, nIDEvent, interval.val>>, oret)
       ELSE Forwarded(c, <<hWnd, nIDEvent, uElapse>>, oret)

\* hk_SetTimer; interval is cm->get_ui_update_interval().
hk_SetTimer(hWnd, nIDEvent, uElapse, interval, oret) ==
    LET c == Call("SetTimer", <<hWnd, nIDEvent, uElapse>>)
    IN IF nIDEvent = 12346 /\ interval.has
       THEN Forwarded(c, <<hWnd, nIDEvent, interval.val>>, oret)
       ELSE Forwarded(c, <<hWnd, nIDEvent, uElapse>>, oret)

\* The corners (left, top) of the rectangles hk_Rectangle leaves out.
masked_potato == {<<1469, 15>>, <<1221, 581>>, <<1159, 581>>, <<1345, 581>>, <<1283, 581>>}

masked_banana == {<<848, 15>>, <<789, 432>>, <<727, 432>>, <<913, 432>>, <<851, 432>>}

\* The rectangle is one of those masked for the flavor that runs.
is_masked(cur_flavor, left, top) ==
    \/ cur_flavor = SomeFlavor("FLAVOR_POTATO") /\ <<left, top>> \in masked_potato
    \/ cur_flavor = SomeFlavor("FLAVOR_BANANA") /\ <<left, top>> \in masked_banana

\* hk_Rectangle; cur_flavor is cm->get_current_flavor_id().
hk_Rectangle(cur_flavor, left, top, right, bottom, oret) ==
    LET c == Call("Rectangle", <<left, top, right, bottom>>)
    IN IF is_masked(cur_flavor, left, top) THEN [c EXCEPT !.ret = "TRUE"]
       ELSE Forwarded(c, <<left, top, right, bottom>>, oret)

\* hk_SetWindowPos; root: GetAncestor(hWnd, GA_ROOT) gave a window.
hk_SetWindowPos(w, hWnd, pos, root, oret) ==
    LET c == Call("SetWindowPos", <<hWnd, pos>>)
    IN IF hWnd = get_hwnd_main(w) /\ root THEN [c EXCEPT !.ret = "TRUE"]
       ELSE Forwarded(c, <<hWnd, pos>>, oret)

\* SYNCHRONIZE | PROCESS_VM_READ | PROCESS_QUERY_INFORMATION is the mask that
\* is replaced.
AccessMasks ==
    {"SYNCHRONIZE|PROCESS_VM_READ|PROCESS_QUERY_INFORMATION", "PROCESS_QUERY_INFORMATION",
     "PROCESS_QUERY_LIMITED_INFORMATION"}

\* hk_OpenProcess
hk_OpenProcess(dwDesiredAccess, bInheritHandle, dwProcessId, oret) ==
    LET c == Call("OpenProcess", <<dwDesiredAccess, bInheritHandle, dwProcessId>>)
    IN IF dwDesiredAccess = "SYNCHRONIZE|PROCESS_VM_READ|PROCESS_QUERY_INFORMATION"
       THEN Forwarded(c, <<"PROCESS_QUERY_LIMITED_INFORMATION", bInheritHandle, dwProcessId>>,
                      oret)
       ELSE Forwarded(c, <<dwDesiredAccess, bInheritHandle, dwProcessId>>, oret)

\* hk_CreateWindowExA (part_001 1060-1100) as its caller sees it: both
\* returns hand the arguments to o_CreateWindowExA.
hk_CreateWindowExA_call(lparam_null, class, wnd_id, oret) ==
    Forwarded(Call("CreateWindowExA", <<lparam_null, class, wnd_id>>),
              <<lparam_null, class, wnd_id>>, oret)

(***************************************************************************)
(* hk_CoCreateInstance (part_001 1335-1377) as its caller sees it.         *)
(***************************************************************************)
\* What the try block meets once o_CoCreateInstance gave the enumerator:
\* both calls succeed, GetDefaultAudioEndpoint fails, Activate fails.
EndpointEnvs == {"ok", "endpoint_fails", "activate_fails"}

\* The object CoCreateInstance leaves in *ppv: none when it fails.
created_object(hr) == IF hr = "S_OK" THEN "object" ELSE "null"

\* The try block of hk_CoCreateInstance succeeded.
chain_acquired(oret, env) == oret = "S_OK" /\ env = "ok"

\* hk_CoCreateInstance; is_enum: the class and the interface are the device
\* enumerator's, hooked: o_GetSessionEnumerator is set, oret is what the
\* original returns for these arguments.  The first call of the original
\* stores the enumerator in a local, the second one in the caller's ppv.
hk_CoCreateInstance_call(is_enum, hooked, oret, env) ==
    LET c == [Call("CoCreateInstance", <<is_enum>>) EXCEPT
                 !.oret = oret, !.oout = created_object(oret), !.env = env]
    IN IF ~is_enum \/ hooked
       THEN [c EXCEPT !.fwd = << <<is_enum, "ppv">> >>, !.ret = oret,
                      !.out = created_object(oret)]
       ELSE IF oret # "S_OK"
       THEN [c EXCEPT !.fwd = << <<is_enum, "device_enumerator">> >>, !.ret = oret,
                      !.out = "untouched"]
       ELSE IF env = "endpoint_fails"
       THEN [c EXCEPT !.fwd = << <<is_enum, "device_enumerator">> >>, !.ret = "E_NOTFOUND",
                      !.out = "untouched"]
       ELSE IF env = "activate_fails"
       THEN [c EXCEPT !.fwd = << <<is_enum, "device_enumerator">> >>, !.ret = "E_NOINTERFACE",
                      !.out = "untouched"]
       ELSE [c EXCEPT !.fwd = << <<is_enum, "device_enumerator">>, <<is_enum, "ppv">> >>,
                      !.ret = oret, !.out = created_object(oret)]

(***************************************************************************)
(* config_manager: the window size kept in the registry (part_000 35-145). *)
(* The registry gives, for a sub key of HKEY_CURRENT_USER, whether the key *)
(* exists and its two values.                                              *)
(***************************************************************************)
\* reg_sub_key_default, reg_sub_key_banana, reg_sub_key_potato: one sub key
\* for each flavor.  The two value names, reg_val_wnd_size_width and
\* reg_val_wnd_size_height, are the fields width and height of a key.
reg_sub_key(f) ==
    IF f = "FLAVOR_POTATO" THEN "potato"
    ELSE IF f = "FLAVOR_BANANA" THEN "banana"
    ELSE "default"

\* The empty sub key names HKEY_CURRENT_USER itself.
SubKeys == {"", "default", "banana", "potato"}

NoValue == [has |-> FALSE, type |-> "REG_NONE", data |-> 0]
Dword(v) == [has |-> TRUE, type |-> "REG_DWORD", data |-> v]

\* Before the first save: no sub key of vmchroma, no value.
registry0 ==
    [k \in SubKeys |-> [exists |-> k = "", width |-> NoValue, height |-> NoValue]]

\* What the registry calls of reg_save_wnd_size may do: all succeed,
\* RegCreateKeyExW fails, the first or the second RegSetValueExW fails.
SaveEnvs == {"ok", "create_fails", "width_fails", "height_fails"}

\* reg_save_wnd_size writing the width into both values.
reg_save_wnd_size_width_twice(hkcu, cur_flavor, width, height, env) ==
    IF ~cur_flavor.has \/ env # "ok" THEN [hkcu |-> hkcu, done |-> FALSE]
    ELSE [hkcu |-> [hkcu EXCEPT ![reg_sub_key(cur_flavor.val)] =
                        [exists |-> TRUE, width |-> Dword(width), height |-> Dword(width)]],
          done |-> TRUE]

\* reg_save_wnd_size (part_000 35-81); done: it reached RegCloseKey.
reg_save_wnd_size(hkcu, cur_flavor, width, height, env) ==
    IF ~cur_flavor.has THEN [hkcu |-> hkcu, done |-> FALSE]
    ELSE LET k == reg_sub_key(cur_flavor.val)
             s1 == [hkcu EXCEPT ![k].exists = TRUE]
             s2 == [s1 EXCEPT ![k].width = Dword(width)]
             s3 == [s2 EXCEPT ![k].height = Dword(height)]
         IN IF env = "create_fails" THEN [hkcu |-> hkcu, done |-> FALSE]
            ELSE IF env = "width_fails" THEN [hkcu |-> s1, done |-> FALSE]
            ELSE IF env = "height_fails" THEN [hkcu |-> s2, done |-> FALSE]
            ELSE [hkcu |-> s3, done |-> TRUE]

\* RegQueryValueExW gave ERROR_SUCCESS, REG_DWORD and four bytes.
dword_read(v) == v.has /\ v.type = "REG_DWORD"

\* reg_get_wnd_size (part_000 89-145).  `cur_flavor == FLAVOR_NONE` compares
\* a std::optional with a value and is false for std::nullopt: the sub key
\* then stays empty.
reg_get_wnd_size(hkcu, cur_flavor) ==
    LET k == IF cur_flavor.has THEN reg_sub_key(cur_flavor.val) ELSE ""
    IN IF cur_flavor.has /\ cur_flavor.val = "FLAVOR_NONE" THEN NoReg
       ELSE IF ~hkcu[k].exists THEN NoReg
       ELSE IF ~dword_read(hkcu[k].width) THEN NoReg
       ELSE IF ~dword_read(hkcu[k].height) THEN NoReg
       ELSE RegPair(hkcu[k].width.data, hkcu[k].height.data)

\* The sub keys reg_get_wnd_size hands to RegOpenKeyExW, in order.
reg_get_wnd_size_opens(cur_flavor) ==
    IF cur_flavor.has /\ cur_flavor.val = "FLAVOR_NONE" THEN <<>>
    ELSE << <<IF cur_flavor.has THEN reg_sub_key(cur_flavor.val) ELSE "">> >>

(***************************************************************************)
(* The scale transform of window_manager.  The factor is `current size /   *)
(* logical size`, the same for both axes: the smaller of the two ratios.   *)
(* It is kept as a fraction num / den; a converted coordinate is rounded   *)
(* to the nearest integer.                                                 *)
(***************************************************************************)
\* a / b rounded to the nearest integer, halves away from zero (b > 0).
RoundQ(a, b) ==
    IF a >= 0 THEN (2 * a + b) \div (2 * b) ELSE 0 - ((2 * (0 - a) + b) \div (2 * b))

\* The width bounds the factor (cur_cx / default_cx <= cur_cy / default_cy).
width_bounds(w) == w.cur_cx * w.default_cy <= w.cur_cy * w.default_cx

scale_num(w) == IF width_bounds(w) THEN w.cur_cx ELSE w.cur_cy

scale_den(w) == IF width_bounds(w) THEN w.default_cx ELSE w.default_cy

\* scale_coords_inverse that leaves the point as it is.
scale_coords_inverse_unscaled(w, pt) == pt

\* window_manager::scale_coords_inverse: logical to device coordinates.
scale_coords_inverse(w, pt) ==
    Pt(RoundQ(pt.x * scale_num(w), scale_den(w)), RoundQ(pt.y * scale_num(w), scale_den(w)))

\* window_manager::scale_coords: device to logical coordinates.
scale_coords(w, pt) ==
    Pt(RoundQ(pt.x * scale_den(w), scale_num(w)), RoundQ(pt.y * scale_den(w), scale_num(w)))

\* ScreenToClient / ClientToScreen; org is the client area's origin on the screen.
ScreenToClient(org, pt) == Pt(pt.x - org.x, pt.y - org.y)

ClientToScreen(org, pt) == Pt(pt.x + org.x, pt.y + org.y)

(***************************************************************************)
(* hk_WndProc_main: the mouse messages (part_001 579-628) and WM_NCHITTEST *)
(* (682-703).                                                              *)
(***************************************************************************)
LeftButtonMsgs == {"WM_LBUTTONDOWN", "WM_LBUTTONDBLCLK", "WM_LBUTTONUP"}

RightButtonMsgs == {"WM_RBUTTONDOWN", "WM_RBUTTONDBLCLK", "WM_RBUTTONUP"}

MiddleButtonMsgs == {"WM_MBUTTONDOWN", "WM_MBUTTONDBLCLK", "WM_MBUTTONUP"}

\* The mouse messages a window receives with a position in lParam.
MouseMsgs ==
    LeftButtonMsgs \cup RightButtonMsgs \cup MiddleButtonMsgs
        \cup {"WM_MOUSEMOVE", "WM_MOUSEWHEEL"}

\* The end of hk_WndProc_main (part_001 776): the message goes to the
\* original as it came.
hk_WndProc_main_forward(w, n, msg, wparam, pt, org) ==
    Handled(w, n, [Event(msg, "main") EXCEPT
                     !.wparam = wparam, !.pin = pt, !.pout = pt, !.org = org,
                     !.orig = TRUE, !.ret = "orig"])

\* The six left and right button messages (part_001 579-590).
hk_WndProc_main_button(w, n, msg, wparam, pt, org) ==
    Handled(w, n, [Event(msg, "main") EXCEPT
                     !.wparam = wparam, !.pin = pt, !.pout = scale_coords(w, pt),
                     !.org = org, !.orig = TRUE, !.ret = "orig",
                     !.renders = IF msg \in LeftButtonMsgs THEN 1 ELSE 0])

\* WM_MOUSEWHEEL (part_001 592-613): lParam is a position on the screen.
hk_WndProc_main_wheel(w, n, msg, wparam, pt, org) ==
    Handled(w, n, [Event(msg, "main") EXCEPT
                     !.wparam = wparam, !.pin = pt,
                     !.pout = ClientToScreen(org, scale_coords(w, ScreenToClient(org, pt))),
                     !.org = org, !.orig = TRUE, !.ret = "orig", !.renders = 1])

\* WM_MOUSEMOVE (part_001 615-628); wparam is "MK_LBUTTON" while the left
\* button is down, and WM_TIMER 12346 is then sent to the window.
hk_WndProc_main_move(w, n, msg, wparam, pt, org) ==
    LET e == [Event(msg, "main") EXCEPT
                !.wparam = wparam, !.pin = pt, !.pout = scale_coords(w, pt),
                !.org = org, !.orig = TRUE, !.ret = "orig"]
    IN Handled(w, n, IF wparam = "MK_LBUTTON" THEN hk_WndProc_main_timer(e) ELSE e)

\* hk_WndProc_main for a mouse message.
hk_WndProc_main_mouse(w, n, msg, wparam, pt, org) ==
    IF msg \in LeftButtonMsgs \cup RightButtonMsgs
    THEN hk_WndProc_main_button(w, n, msg, wparam, pt, org)
    ELSE IF msg = "WM_MOUSEWHEEL" THEN hk_WndProc_main_wheel(w, n, msg, wparam, pt, org)
    ELSE IF msg = "WM_MOUSEMOVE" THEN hk_WndProc_main_move(w, n, msg, wparam, pt, org)
    ELSE hk_WndProc_main_forward(w, n, msg, wparam, pt, org)

\* constexpr int area_size = 10;
area_size == 10

\* The height of the caption strip in logical coordinates (pt.y < 40).
caption_height == 40

\* A LONG compared with a uint32_t (below 2^31): the LONG is converted, and
\* a negative one becomes larger than every such value.
long_gt_u32(a, b) == IF a < 0 THEN TRUE ELSE a > b

long_lt_u32(a, b) == IF a < 0 THEN FALSE ELSE a < b

\* pt.x > rc.right - area_size && pt.y > rc.bottom - area_size
in_resize_corner(rc, pt) == pt.x > rc.right - area_size /\ pt.y > rc.bottom - area_size

\* pt.x > af.htclient_x1 && pt.x < af.htclient_x2 && pt.y < 40
in_caption(af, pt) ==
    long_gt_u32(pt.x, af.x1) /\ long_lt_u32(pt.x, af.x2) /\ pt.y < caption_height

\* o_GetClientRect of the primary window.
client_rect(n) == Rc(0, 0, n.size.w, n.size.h)

\* WM_NCHITTEST with the point converted before the corner test.
hk_WndProc_main_nchittest_scaled_first(w, n, pt, org, af) ==
    LET lp == scale_coords(w, ScreenToClient(org, pt))
        e == [Event("WM_NCHITTEST", "main") EXCEPT
                !.pin = pt, !.org = org, !.pout = lp, !.x1 = af.x1, !.x2 = af.x2]
    IN Handled(w, n, [e EXCEPT !.ret = IF in_resize_corner(client_rect(n), lp)
                                      THEN "HTBOTTOMRIGHT"
                                      ELSE IF in_caption(af, lp) THEN "HTCAPTION"
                                      ELSE "HTCLIENT"])

\* WM_NCHITTEST (part_001 682-703); af is the active flavor.
hk_WndProc_main_nchittest(w, n, pt, org, af) ==
    LET cp == ScreenToClient(org, pt)
        lp == scale_coords(w, cp)
        e == [Event("WM_NCHITTEST", "main") EXCEPT
                !.pin = pt, !.org = org, !.pout = lp, !.x1 = af.x1, !.x2 = af.x2]
    IN Handled(w, n, [e EXCEPT !.ret = IF in_resize_corner(client_rect(n), cp)
                                      THEN "HTBOTTOMRIGHT"
                                      ELSE IF in_caption(af, lp) THEN "HTCAPTION"
                                      ELSE "HTCLIENT"])

(***************************************************************************)
(* The hooked functions of user32 (part_001 428-552, 1107-1129).           *)
(***************************************************************************)
\* hk_ReleaseDC that hands every request to the original.
hk_ReleaseDC_forwarding(w, hwnd) ==
    [Event("ReleaseDC", hwnd) EXCEPT !.orig = TRUE, !.ret = "orig"]

\* hk_BeginPaint (part_001 428-440).
hk_BeginPaint(w, hwnd) ==
    [Event("BeginPaint", hwnd) EXCEPT
       !.orig = TRUE, !.ret = IF is_in_map(w, hwnd) THEN "mem_dc" ELSE "orig"]

\* hk_GetDC (part_001 447-457).
hk_GetDC(w, hwnd) ==
    IF is_in_map(w, hwnd)
    THEN [Event("GetDC", hwnd) EXCEPT !.ret = "mem_dc"]
    ELSE [Event("GetDC", hwnd) EXCEPT !.orig = TRUE, !.ret = "orig"]

\* hk_ReleaseDC (part_001 464-470).
hk_ReleaseDC(w, hwnd) ==
    IF is_in_map(w, hwnd)
    THEN [Event("ReleaseDC", hwnd) EXCEPT !.ret = "1"]
    ELSE [Event("ReleaseDC", hwnd) EXCEPT !.orig = TRUE, !.ret = "orig"]

\* The window classes hk_GetClientRect tells apart, for the window and for
\* its parent ("none": GetAncestor(hWnd, GA_PARENT) gave no window).
RectClasses == {"main", "wdb", "compdenoise", "other"}

\* hk_GetClientRect with the test of the parent's class left out.
hk_GetClientRect_any_parent(class, parent, real) ==
    IF parent = "none"
    THEN [Event("GetClientRect", class) EXCEPT
            !.wparam = parent, !.rin = real, !.rout = real, !.orig = TRUE, !.ret = "orig"]
    ELSE IF class = "wdb"
    THEN [Event("GetClientRect", class) EXCEPT
            !.wparam = parent, !.rin = real, !.rout = Rc(0, 0, 100, 386), !.ret = "TRUE"]
    ELSE IF class = "compdenoise"
    THEN [Event("GetClientRect", class) EXCEPT
            !.wparam = parent, !.rin = real, !.rout = Rc(0, 0, 153, 413), !.ret = "TRUE"]
    ELSE [Event("GetClientRect", class) EXCEPT
            !.wparam = parent, !.rin = real, !.rout = real, !.orig = TRUE, !.ret = "orig"]

\* hk_GetClientRect (part_001 477-518); class and parent are the class names
\* of the window and of its parent, real is the rectangle the original gives.
hk_GetClientRect(class, parent, real) ==
    IF parent = "main" /\ class = "wdb"
    THEN [Event("GetClientRect", class) EXCEPT
            !.wparam = parent, !.rin = real, !.rout = Rc(0, 0, 100, 386), !.ret = "TRUE"]
    ELSE IF parent = "main" /\ class = "compdenoise"
    THEN [Event("GetClientRect", class) EXCEPT
            !.wparam = parent, !.rin = real, !.rout = Rc(0, 0, 153, 413), !.ret = "TRUE"]
    ELSE [Event("GetClientRect", class) EXCEPT
            !.wparam = parent, !.rin = real, !.rout = real, !.orig = TRUE, !.ret = "orig"]

\* hk_TrackPopupMenu (part_001 538-552); menu is "tray" for tray_menu; hWnd
\* is a window, so GetAncestor(hWnd, GA_ROOT) is one too.
hk_TrackPopupMenu(w, menu, hwnd, pt, org) ==
    [Event("TrackPopupMenu", hwnd) EXCEPT
       !.wparam = menu, !.pin = pt, !.org = org, !.orig = TRUE, !.ret = "orig",
       !.pout = IF menu # "tray" /\ hwnd = get_hwnd_main(w)
                THEN ClientToScreen(org, scale_coords_inverse(w, ScreenToClient(org, pt)))
                ELSE pt]

\* What dwInitParam of DialogBoxIndirectParamA is: null, the parameters of an
\* edit dialog (unk2 == 2016) or those of another dialog.
DialogKinds == {"null", "edit", "other"}

\* hk_DialogBoxIndirectParamA (part_001 1107-1129); pt is (lparam->x,
\* lparam->y) and pout what the original finds there.
hk_DialogBoxIndirectParamA(w, kind, parent, pt, org) ==
    [Event("DialogBoxIndirectParamA", parent) EXCEPT
       !.wparam = kind, !.pin = pt, !.org = org, !.orig = TRUE, !.ret = "orig",
       !.pout = IF kind = "edit" /\ parent = get_hwnd_main(w)
                THEN ClientToScreen(org, scale_coords_inverse(w, ScreenToClient(org, pt)))
                ELSE pt]
(***************************************************************************)
(* WM_DESTROY of the primary window (part_001 763-776) and the secondary   *)
(* windows: hk_WndProc_comp, hk_WndProc_denoiser, hk_WndProc_wdb           *)
(* (part_001 783-1035).                                                    *)
(***************************************************************************)
\* window_manager::destroy_window: the context of hwnd leaves the map.
destroy_window(w, hwnd) == [w EXCEPT !.tracked = @ \ {hwnd}]

\* What a handler that may save the size gives back.
HandledSaving(w, n, e, hkcu) == [wm |-> w, wnd |-> n, ev |-> e, registry |-> hkcu]

\* rc.right > 0 && rc.right <= wctx.default_cx && rc.bottom > 0 &&
\* rc.bottom <= wctx.default_cy
size_is_stable(w, rc) ==
    /\ rc.right > 0
    /\ ~long_gt_u32(rc.right, w.default_cx)
    /\ rc.bottom > 0
    /\ ~long_gt_u32(rc.bottom, w.default_cy)

\* WM_DESTROY saving whatever the client size is.
hk_WndProc_main_destroy_unchecked(w, n, hkcu, cur_flavor, env) ==
    LET rc == client_rect(n)
    IN HandledSaving(destroy_window(w, "main"), n,
                     [Event("WM_DESTROY", "main") EXCEPT
                        !.rin = rc, !.saved = TRUE, !.orig = TRUE, !.ret = "orig"],
                     reg_save_wnd_size(hkcu, cur_flavor, rc.right, rc.bottom, env).hkcu)

\* WM_DESTROY of the primary window; cur_flavor and env are what
\* reg_save_wnd_size gets from get_current_flavor_id and the registry calls.
hk_WndProc_main_destroy(w, n, hkcu, cur_flavor, env) ==
    LET rc == client_rect(n)
        fits == size_is_stable(w, rc)
    IN HandledSaving(destroy_window(w, "main"), n,
                     [Event("WM_DESTROY", "main") EXCEPT
                        !.rin = rc, !.saved = fits, !.orig = TRUE, !.ret = "orig"],
                     IF fits
                     THEN reg_save_wnd_size(hkcu, cur_flavor, rc.right, rc.bottom, env).hkcu
                     ELSE hkcu)

\* The secondary windows: hwnd tells which procedure runs.
ChildWindows == {"comp", "denoiser", "wdb"}

\* WM_DESTROY of a secondary window (part_001 844-851, 928-935, 1019-1026).
hk_WndProc_child_destroy(w, n, hwnd) ==
    Handled(destroy_window(w, hwnd), n,
            [Event("WM_DESTROY", hwnd) EXCEPT !.orig = TRUE, !.ret = "orig"])

\* window_manager::scale_to_main_wnd with the factor cut to three decimals.
scale_to_main_wnd_three_decimals(w, cs) ==
    LET f == RoundQ(1000 * scale_num(w), scale_den(w))
    IN Xywh(RoundQ(cs.x * f, 1000), RoundQ(cs.y * f, 1000),
            RoundQ(cs.cx * f, 1000), RoundQ(cs.cy * f, 1000))

\* window_manager::scale_to_main_wnd: the four values of a logical rectangle
\* become device values, each multiplied by the factor and rounded.
scale_to_main_wnd(w, cs) ==
    Xywh(RoundQ(cs.x * scale_num(w), scale_den(w)), RoundQ(cs.y * scale_num(w), scale_den(w)),
         RoundQ(cs.cx * scale_num(w), scale_den(w)), RoundQ(cs.cy * scale_num(w), scale_den(w)))

\* cs->x -= 1; cs->y -= 1; cs->cx += 2; cs->cy += 2;
fix_pixel_gap(cs) == Xywh(cs.x - 1, cs.y - 1, cs.cx + 2, cs.cy + 2)

\* WM_CREATE of a secondary window (part_001 785-799, 869-883, 962-983):
\* the rectangle of CREATESTRUCTA is scaled in place, the window moved to it
\* and the original called with it.  The render target of a secondary window
\* is not followed.
hk_WndProc_child_create(w, n, hwnd, cs) ==
    LET w1 == init_window(w, hwnd)
        scaled == scale_to_main_wnd(w1, cs)
        rect == IF hwnd = "wdb" THEN fix_pixel_gap(scaled) ELSE scaled
    IN Handled(w1, n, [Event("WM_CREATE", hwnd) EXCEPT
                         !.cs = cs, !.moved = rect, !.orig = TRUE, !.ret = "orig"])
(***************************************************************************)
(* hk_CreateWindowExA (part_001 1060-1100) together with the creation      *)
(* message that o_CreateWindowExA sends before it returns.                 *)
(***************************************************************************)
\* The procedure slot of the window that a call creates: the class and the
\* window id tell the kind of a secondary window; "none" for every other.
wndproc_slot(lparam_null, class, wnd_id) ==
    IF lparam_null THEN "none"
    ELSE IF class = "compdenoise" /\ wnd_id >= 1200 /\ wnd_id <= 1204 THEN "WndProc_denoiser"
    ELSE IF class = "compdenoise" /\ wnd_id >= 1100 /\ wnd_id <= 1104 THEN "WndProc_comp"
    ELSE IF class = "wdb" /\ wnd_id >= 1000 /\ wnd_id <= 1002 THEN "WndProc_wdb"
    ELSE "none"

\* The window whose messages the procedure of a slot gets.
window_of(slot) ==
    CASE slot = "WndProc_main" -> "main"
      [] slot = "WndProc_denoiser" -> "denoiser"
      [] slot = "WndProc_comp" -> "comp"
      [] slot = "WndProc_wdb" -> "wdb"
      [] OTHER -> "other"

\* A call of the host's procedure enters the replacement once the procedure
\* is detoured.
enters_replacement(h, slot) == slot \in h.active

CreatedWindow(h, slot, hooked) == [h |-> h, slot |-> slot, hooked |-> hooked]

\* hk_CreateWindowExA that creates the window first and hooks afterwards.
hk_CreateWindowExA_creating_first(h, lparam_null, class, wnd_id, attach_ok) ==
    LET slot == wndproc_slot(lparam_null, class, wnd_id)
    IN CreatedWindow(hk_CreateWindowExA(h, lparam_null, class, wnd_id, attach_ok), slot,
                     enters_replacement(h, slot))

\* hk_CreateWindowExA as a whole: the three blocks, then o_CreateWindowExA,
\* inside which the new window's procedure is called with WM_CREATE; hooked
\* tells whether that call enters the replacement.
hk_CreateWindowExA_creating(h, lparam_null, class, wnd_id, attach_ok) ==
    LET h1 == hk_CreateWindowExA(h, lparam_null, class, wnd_id, attach_ok)
        slot == wndproc_slot(lparam_null, class, wnd_id)
    IN CreatedWindow(h1, slot, enters_replacement(h1, slot))

\* A message that the host's own procedure got without the replacement.
Direct(hwnd, msg) == [call0 EXCEPT !.fn = "o_WndProc", !.args = <<hwnd, msg>>]
(***************************************************************************)
(* hk_GetSessionEnumerator and hk_GetSession (part_001 1252-1333) as their *)
(* caller sees them.  hooked: the slot the hook fills is set already; oret *)
(* is what the original returns.                                           *)
(***************************************************************************)
\* hk_GetSessionEnumerator that acquires an enumerator of its own each time.
hk_GetSessionEnumerator_call_unguarded(hooked, oret) ==
    LET c == [Call("GetSessionEnumerator", <<>>) EXCEPT
                 !.oret = oret, !.oout = created_object(oret)]
    IN IF oret # "S_OK"
       THEN [c EXCEPT !.fwd = << <<"session_enumerator">> >>, !.out = "untouched"]
       ELSE [c EXCEPT !.fwd = << <<"session_enumerator">>, <<"SessionEnum">> >>,
                      !.ret = oret, !.out = created_object(oret)]

\* The first call of the original stores the enumerator in a local, the
\* second one in the caller's SessionEnum; when the first one fails, the
\* dispatch table is read through the null pointer and nothing is returned.
hk_GetSessionEnumerator_call(hooked, oret) ==
    LET c == [Call("GetSessionEnumerator", <<>>) EXCEPT
                 !.oret = oret, !.oout = created_object(oret)]
    IN IF hooked
       THEN [c EXCEPT !.fwd = << <<"SessionEnum">> >>, !.ret = oret,
                      !.out = created_object(oret)]
       ELSE IF oret # "S_OK"
       THEN [c EXCEPT !.fwd = << <<"session_enumerator">> >>, !.out = "untouched"]
       ELSE [c EXCEPT !.fwd = << <<"session_enumerator">>, <<"SessionEnum">> >>,
                      !.ret = oret, !.out = created_object(oret)]

\* What QueryInterface(IAudioSessionControl2) meets in hk_GetSession.
QueryEnvs == {"ok", "query_fails"}

\* The try block of hk_GetSession succeeded.
session_acquired(oret, env) == oret = "S_OK" /\ env = "ok"

\* hk_GetSession; hooked: o_GetProcessId or o_IsSystemSoundsSession is set.
hk_GetSession_call(hooked, oret, env) ==
    LET c == [Call("GetSession", <<>>) EXCEPT
                 !.oret = oret, !.oout = created_object(oret), !.env = env]
    IN IF hooked
       THEN [c EXCEPT !.fwd = << <<"Session">> >>, !.ret = oret,
                      !.out = created_object(oret)]
       ELSE IF ~session_acquired(oret, env)
       THEN [c EXCEPT !.fwd = << <<"session_control">> >>, !.out = "untouched"]
       ELSE [c EXCEPT !.fwd = << <<"session_control">>, <<"Session">> >>,
                      !.ret = oret, !.out = created_object(oret)]
(***************************************************************************)
(* The state after the DLL image is mapped, before DllMain runs.           *)
(***************************************************************************)
fin0 ==
    [op |-> "none", sig |-> [pattern |-> <<>>, mask |-> <<>>], img |-> <<>>,
     resolved |-> TRUE, sections |-> NoSections, size |-> 0]

fout0 ==
    [done |-> FALSE, scan |-> [occ |-> <<>>, fault |-> FALSE, oob |-> FALSE], cave |-> None]

\* The statics of dllmain: every o_* of a late slot is nullptr, every other
\* o_* holds the address of the function it names.
hk0 ==
    [pending |-> FALSE, error |-> FALSE, staged |-> {}, active |-> {},
     optr |-> [s \in AllHooks |-> IF s \in LateSlots THEN "null" ELSE "raw"],
     attaches |-> [s \in AllHooks |-> 0]]

ps0 == [state |-> "loading", mbox |-> 0, exit_code |-> 0]

cm0 ==
    [init_entered |-> FALSE, theme_enabled |-> FALSE,
     app_aliases |-> [has |-> FALSE, val |-> <<>>],
     fader_scroll_step |-> [has |-> FALSE, val |-> 0],
     fader_shift_scroll_step |-> [has |-> FALSE, val |-> 0]]

pp0 ==
    [pc |-> "idle", cave |-> 0, merged |-> <<>>, from |-> <<>>, site1 |-> 0, site2 |-> 0,
     ret |-> "none", calls |-> 0, wrote |-> FALSE, scanned |-> FALSE, executable |-> FALSE,
     redirected |-> 0, flushed |-> FALSE, early |-> FALSE]

hist0 ==
    [init_fail |-> "none", applied |-> "none", mutex_calls |-> 0, mutex_orig |-> 0,
     bringups |-> 0, nested_calls |-> 0, nested_orig |-> 0,
     main_registered |-> FALSE, creates |-> 0, orig_count |-> 0, orig_returned |-> FALSE]

ImageInit(archs, slotsets, zruns) ==
    \E a \in archs, slots \in slotsets, short \in zruns :
        /\ arch = a
        /\ sects = SectionsOf(a, slots)
        /\ mem0 = ImageOf(a, slots, Len(shellcode_multiply(a)) - short)
        /\ mem = mem0
        /\ rw = {}
        /\ pp = pp0

HostInit ==
    /\ pc = "idle"
    /\ ps = ps0
    /\ hk = hk0
    /\ cm = cm0
    /\ hist = hist0
    /\ wm = wm0
    /\ wnd = wnd0
    /\ ev = ev0
    /\ registry = registry0
    /\ call = call0
    /\ file_version_buffer = file_version_buffer0
    /\ scroll_value = scroll_value0
    /\ dispatch = dispatch0
    /\ dcs = dcs0

(***************************************************************************)
(* DllMain and the hooked entry points the host calls.                     *)
(***************************************************************************)
\* DllMain, DLL_PROCESS_ATTACH: FALSE makes the load of the DLL fail.
DllMain ==
    /\ ps.state = "loading"
    /\ \E attach_ok \in BOOLEAN :
         LET r == hook_single_fn(hk, "CreateMutexA", attach_ok)
         IN /\ hk' = r.h
            /\ ps' = [ps EXCEPT !.state = IF r.ret THEN "running" ELSE "load_failed"]
    /\ UNCHANGED <<envVars, fnVars, imgVars, geoVars, patchVars, pc, cm, hist>>

Idle == ps.state = "running" /\ pc = "idle"

MutexEnvs ==
    [log_ok : BOOLEAN, cfg_ok : BOOLEAN, theme_ok : BOOLEAN, theme_enabled : BOOLEAN,
     fail_at : 0..(Len(hooks_base) + Len(hooks_theme))]

\* What the environment answers is only consulted by the first call.
MutexEnvOk ==
    [log_ok |-> TRUE, cfg_ok |-> TRUE, theme_ok |-> TRUE, theme_enabled |-> TRUE,
     fail_at |-> 0]

\* The host calls CreateMutexA.  `nested` is the number of calls of the hooked
\* function made on the same thread while the bring-up block of this call runs
\* (after init_entered is set); each of them goes through hk_CreateMutexA too.
Host_CreateMutexA ==
    /\ Idle
    /\ "CreateMutexA" \in hk.active
    /\ hist.mutex_calls < MaxCount
    /\ \E env \in (IF cm.init_entered THEN {MutexEnvOk} ELSE MutexEnvs) :
       \E nested \in (IF cm.init_entered THEN {0} ELSE 0..MaxNested) :
         LET r == hk_CreateMutexA(ps, hk, cm, env)
             n == hk_CreateMutexA(ps, hk, mark_entered(cm), MutexEnvOk)
         IN /\ ps' = r.ps
            /\ hk' = r.hk
            /\ cm' = r.cm
            /\ hist' = [hist EXCEPT
                          !.mutex_calls = @ + 1,
                          !.mutex_orig = IF r.orig THEN @ + 1 ELSE @,
                          !.nested_calls = @ + nested,
                          !.nested_orig = @ + (IF n.orig THEN nested ELSE 0),
                          !.bringups = @ + (IF r.started THEN 1 ELSE 0)
                                         + (IF n.started THEN nested ELSE 0),
                          !.init_fail = IF cm.init_entered THEN @ ELSE r.fail,
                          !.applied = IF cm.init_entered THEN @ ELSE r.applied]
    /\ UNCHANGED <<envVars, fnVars, imgVars, geoVars, patchVars, pc>>

\* The host calls RegisterClassA.
Host_RegisterClassA ==
    /\ Idle
    /\ \E is_main \in BOOLEAN, attach_ok \in BOOLEAN :
         /\ hk' = IF "RegisterClassA" \in hk.active
                  THEN hk_RegisterClassA(hk, is_main, attach_ok)
                  ELSE hk
         /\ hist' = [hist EXCEPT !.main_registered = @ \/ is_main]
    /\ UNCHANGED <<envVars, fnVars, imgVars, geoVars, patchVars, pc, ps, cm>>

WndClasses == {"compdenoise", "wdb", "other"}
WndIds == {1000, 1003, 1100, 1105, 1200, 1205}

\* The host calls CreateWindowExA.
Host_CreateWindowExA ==
    /\ Idle
    /\ "CreateWindowExA" \in hk.active
    /\ \E lparam_null \in BOOLEAN, class \in WndClasses, wnd_id \in WndIds,
          attach_ok \in BOOLEAN :
         hk' = hk_CreateWindowExA(hk, lparam_null, class, wnd_id, attach_ok)
    /\ UNCHANGED <<envVars, fnVars, imgVars, geoVars, patchVars, pc, ps, cm, hist>>

\* The host calls CoCreateInstance.
Host_CoCreateInstance ==
    /\ Idle
    /\ "CoCreateInstance" \in hk.active
    /\ \E is_enum \in BOOLEAN, acquired \in BOOLEAN, attach_ok \in BOOLEAN :
         hk' = hk_CoCreateInstance(hk, is_enum, acquired, attach_ok).h
    /\ UNCHANGED <<envVars, fnVars, imgVars, geoVars, patchVars, pc, ps, cm, hist>>

\* The host calls IAudioSessionManager2::GetSessionEnumerator.
Host_GetSessionEnumerator ==
    /\ Idle
    /\ "GetSessionEnumerator" \in hk.active
    /\ \E acquired \in BOOLEAN, attach_ok \in BOOLEAN :
         LET r == hk_GetSessionEnumerator(hk, acquired, attach_ok)
         IN /\ hk' = r.h
            /\ ps' = IF r.fault THEN [ps EXCEPT !.state = "crashed"] ELSE ps
    /\ UNCHANGED <<envVars, fnVars, imgVars, geoVars, patchVars, pc, cm, hist>>

\* The host calls IAudioSessionEnumerator::GetSession.
Host_GetSession ==
    /\ Idle
    /\ "GetSession" \in hk.active
    /\ \E acquired \in BOOLEAN, attach_ok1 \in BOOLEAN, attach_ok2 \in BOOLEAN :
         LET r == hk_GetSession(hk, acquired, attach_ok1, attach_ok2)
         IN /\ hk' = r.h
            /\ ps' = IF r.fault THEN [ps EXCEPT !.state = "crashed"] ELSE ps
    /\ UNCHANGED <<envVars, fnVars, imgVars, geoVars, patchVars, pc, cm, hist>>
(***************************************************************************)
(* hk_WndProc_main, WM_CREATE (part_001 631-680): the host's own window    *)
(* procedure is called through o_WndProc_main, then the scroll patch is    *)
(* applied.                                                                *)
(***************************************************************************)
hk_WndProc_main_patch_first == <<"create_patch", "create_orig">>

\* The order of the two calls inside the handler.
hk_WndProc_main_create == <<"create_orig", "create_patch">>

FirstPc == hk_WndProc_main_create[1]

NextPc(cur) ==
    IF hk_WndProc_main_create[1] = cur THEN hk_WndProc_main_create[2] ELSE "idle"

\* What WM_CREATE comes with: the size in CREATESTRUCTA, the restore option
\* of the configuration and what reg_get_wnd_size reads.
CreateInputs(sizes, opts, regs) == [cs : sizes, opt : opts, reg : regs]

\* WM_CREATE of the primary window arrives at the hooked window procedure.
WmCreate(inputs) ==
    /\ Idle
    /\ "WndProc_main" \in hk.active
    /\ hist.creates < MaxAttempts
    /\ pc' = FirstPc
    /\ hist' = [hist EXCEPT !.creates = @ + 1, !.orig_returned = FALSE]
    /\ \E i \in inputs :
         LET r == hk_WndProc_main_create_enter(wm, wnd, i.cs, i.opt, i.reg)
         IN wm' = r.wm /\ wnd' = r.wnd /\ ev' = r.ev
    /\ UNCHANGED <<envVars, fnVars, imgVars, patchVars, ps, hk, cm>>

\* The creation the patch model follows: the size of the host's window, no
\* persisted size.
WmCreate_Enter == WmCreate(CreateInputs({Sz(MaxLogical, MaxLogical)}, {"absent"}, {NoReg}))

\* ret = o_WndProc_main(hwnd, msg, wParam, lParam), and on the restore path
\* o_SetWindowPos and resize_d2d.
WmCreate_CallOrig ==
    /\ ps.state = "running"
    /\ pc = "create_orig"
    /\ pc' = NextPc("create_orig")
    /\ hist' = [hist EXCEPT !.orig_count = @ + 1, !.orig_returned = TRUE]
    /\ LET r == hk_WndProc_main_create_orig(wm, wnd, ev)
       IN wm' = r.wm /\ wnd' = r.wnd /\ ev' = r.ev
    /\ UNCHANGED <<envVars, fnVars, imgVars, patchVars, ps, hk, cm>>

(***************************************************************************)
(* utils::apply_scroll_patch64 / apply_scroll_patch32 (utils.cpp 445-636), *)
(* one action per system call or store.  VirtualProtect is modelled on the *)
(* bytes it is asked for (rw holds the offsets that are writable).         *)
(***************************************************************************)
InPatch(at) == ps.state = "running" /\ pc = "create_patch" /\ pp.pc = at

\* return r;
PatchReturn(p, r) ==
    /\ pp' = [p EXCEPT !.pc = "idle", !.ret = IF r THEN "true" ELSE "false"]
    /\ pc' = NextPc("create_patch")

PatchGoto(p, at) ==
    /\ pp' = [p EXCEPT !.pc = at]
    /\ pc' = pc

CaveRange == range_of(pp.cave, Len(shellcode_multiply(arch)))
Site1Range == range_of(pp.site1, Len(shellcode_call(arch)))
Site2Range == range_of(pp.site2, Len(shellcode_call(arch)))

\* GetModuleHandle(nullptr), the thunk with the address stored in it, and
\* find_code_cave.
Patch_Begin ==
    /\ InPatch("idle")
    /\ \E handle_ok \in BOOLEAN :
         LET p == [pp0 EXCEPT !.calls = pp.calls + 1, !.early = pp.early \/ ~hist.orig_returned]
             cave == find_code_cave(sects, mem, Len(shellcode_multiply(arch)))
         IN IF ~handle_ok \/ ~cave.has THEN PatchReturn(p, FALSE)
            ELSE PatchGoto([p EXCEPT !.cave = cave.val], "protect_cave")
    /\ UNCHANGED <<envVars, fnVars, imgVars, geoVars, mem, rw, hostVars>>

\* VirtualProtect(ptr_text_end, sizeof(shellcode_multiply), PAGE_EXECUTE_READWRITE)
Patch_ProtectCave ==
    /\ InPatch("protect_cave")
    /\ \E ok \in BOOLEAN :
         IF ok THEN rw' = rw \cup CaveRange /\ PatchGoto(pp, "write_thunk")
         ELSE rw' = rw /\ PatchReturn(pp, FALSE)
    /\ UNCHANGED <<envVars, fnVars, imgVars, geoVars, mem, hostVars>>

\* memcpy_s(ptr_text_end, ..., shellcode_multiply, ...)
Patch_WriteThunk ==
    /\ InPatch("write_thunk")
    /\ mem' = store(mem, pp.cave, shellcode_multiply(arch))
    /\ PatchGoto([pp EXCEPT !.wrote = TRUE], "reprotect_cave")
    /\ UNCHANGED <<envVars, fnVars, imgVars, geoVars, rw, hostVars>>

\* VirtualProtect(ptr_text_end, sizeof(shellcode_multiply), PAGE_EXECUTE_READ)
Patch_ReprotectCave ==
    /\ InPatch("reprotect_cave")
    /\ \E ok \in BOOLEAN :
         IF ok THEN rw' = rw \ CaveRange /\ PatchGoto([pp EXCEPT !.executable = TRUE], "scan")
         ELSE rw' = rw /\ PatchReturn(pp, FALSE)
    /\ UNCHANGED <<envVars, fnVars, imgVars, geoVars, mem, hostVars>>

Tags(occ, t) == [k \in 1..Len(occ) |-> t]

\* The two find_signatures calls, the merge and the count check.
Patch_Scan ==
    /\ InPatch("scan")
    /\ \E resolved1 \in BOOLEAN, resolved2 \in BOOLEAN :
         LET occ1 == find_signatures(sig_variant1(arch), mem, resolved1).occ
             occ2 == find_signatures(sig_variant2(arch), mem, resolved2).occ
             merged == occ1 \o occ2
             p == [pp EXCEPT !.scanned = TRUE, !.merged = merged,
                             !.from = Tags(occ1, "v1") \o Tags(occ2, "v2")]
         IN IF ~match_count_ok(merged) THEN PatchReturn(p, FALSE)
            ELSE PatchGoto([p EXCEPT !.site1 = patch_site1(arch, merged),
                                     !.site2 = patch_site2(arch, merged)],
                           "unprotect_sites")
    /\ UNCHANGED <<envVars, fnVars, imgVars, geoVars, mem, rw, hostVars>>

\* The first site made writable and overwritten before the second site is
\* made writable.
Patch_UnprotectSites_site_by_site ==
    /\ InPatch("unprotect_sites")
    /\ \E ok1 \in BOOLEAN, ok2 \in BOOLEAN :
         IF ~ok1 THEN rw' = rw /\ mem' = mem /\ PatchReturn(pp, FALSE)
         ELSE IF ~ok2
         THEN /\ rw' = rw \cup Site1Range
              /\ mem' = store(mem, pp.site1, call_bytes(arch, pp.cave, pp.site1))
              /\ PatchReturn([pp EXCEPT !.redirected = 1], FALSE)
         ELSE /\ rw' = rw \cup Site1Range \cup Site2Range
              /\ mem' = mem
              /\ PatchGoto(pp, "write_site1")
    /\ UNCHANGED <<envVars, fnVars, imgVars, geoVars, hostVars>>

\* !VirtualProtect(site1, ..., PAGE_EXECUTE_READWRITE) ||
\* !VirtualProtect(site2, ..., PAGE_EXECUTE_READWRITE)
Patch_UnprotectSites ==
    /\ InPatch("unprotect_sites")
    /\ \E ok1 \in BOOLEAN, ok2 \in BOOLEAN :
         IF ~ok1 THEN rw' = rw /\ PatchReturn(pp, FALSE)
         ELSE IF ~ok2 THEN rw' = rw \cup Site1Range /\ PatchReturn(pp, FALSE)
         ELSE rw' = rw \cup Site1Range \cup Site2Range /\ PatchGoto(pp, "write_site1")
    /\ UNCHANGED <<envVars, fnVars, imgVars, geoVars, mem, hostVars>>

\* memcpy_s(&shellcode_call[1], 4, &offset, 4); memcpy_s(site1, ...)
Patch_WriteSite1 ==
    /\ InPatch("write_site1")
    /\ mem' = store(mem, pp.site1, call_bytes(arch, pp.cave, pp.site1))
    /\ PatchGoto([pp EXCEPT !.redirected = 1], "write_site2")
    /\ UNCHANGED <<envVars, fnVars, imgVars, geoVars, rw, hostVars>>

Patch_WriteSite2 ==
    /\ InPatch("write_site2")
    /\ mem' = store(mem, pp.site2, call_bytes(arch, pp.cave, pp.site2))
    /\ PatchGoto([pp EXCEPT !.redirected = 2], "reprotect_sites")
    /\ UNCHANGED <<envVars, fnVars, imgVars, geoVars, rw, hostVars>>

\* !VirtualProtect(site1, ..., PAGE_EXECUTE_READ) ||
\* !VirtualProtect(site2, ..., PAGE_EXECUTE_READ)
Patch_ReprotectSites ==
    /\ InPatch("reprotect_sites")
    /\ \E ok1 \in BOOLEAN, ok2 \in BOOLEAN :
         IF ~ok1 THEN rw' = rw /\ PatchReturn(pp, FALSE)
         ELSE IF ~ok2 THEN rw' = rw \ Site1Range /\ PatchReturn(pp, FALSE)
         ELSE rw' = (rw \ Site1Range) \ Site2Range /\ PatchGoto(pp, "flush")
    /\ UNCHANGED <<envVars, fnVars, imgVars, geoVars, mem, hostVars>>

\* FlushInstructionCache(GetCurrentProcess(), nullptr, 0); return true;
Patch_Flush ==
    /\ InPatch("flush")
    /\ PatchReturn([pp EXCEPT !.flushed = TRUE], TRUE)
    /\ UNCHANGED <<envVars, fnVars, imgVars, geoVars, mem, rw, hostVars>>

PatchNext ==
    \/ Patch_Begin \/ Patch_ProtectCave \/ Patch_WriteThunk \/ Patch_ReprotectCave
    \/ Patch_Scan \/ Patch_UnprotectSites \/ Patch_WriteSite1 \/ Patch_WriteSite2
    \/ Patch_ReprotectSites \/ Patch_Flush

(***************************************************************************)
(* The specifications.                                                     *)
(***************************************************************************)
AllSlots == [1..3 -> Variants]

\* DLL load, bring-up, the main window class and the creation of the main
\* window with the scroll patch, over every image.
Init ==
    /\ fin = fin0
    /\ fout = fout0
    /\ ImageInit(Archs, AllSlots, {0, 1})
    /\ HostInit

Next ==
    \/ DllMain
    \/ Host_CreateMutexA
    \/ Host_RegisterClassA
    \/ WmCreate_Enter
    \/ WmCreate_CallOrig
    \/ PatchNext

Spec == Init /\ [][Next]_vars

\* DLL load, bring-up and every trigger of late hooking, on one image.
HookInit ==
    /\ fin = fin0
    /\ fout = fout0
    /\ ImageInit({"x64"}, {<<"v1", "v2", "none">>}, {0})
    /\ HostInit

HookNext ==
    \/ DllMain
    \/ Host_CreateMutexA
    \/ Host_RegisterClassA
    \/ Host_CreateWindowExA
    \/ Host_CoCreateInstance
    \/ Host_GetSessionEnumerator
    \/ Host_GetSession

SpecHook == HookInit /\ [][HookNext]_vars


(***************************************************************************)
(* The messages of the primary window after its creation.                  *)
(***************************************************************************)
\* The primary window exists and its procedure is hooked.
MainAlive ==
    /\ Idle
    /\ "WndProc_main" \in hk.active
    /\ get_hwnd_main(wm) = "main"

\* The logical sizes the primary window is created with.
LogicalSizes == {Sz(w, h) : w \in 2..MaxLogical, h \in 2..MaxLogical}

\* What reg_get_wnd_size may read: nothing, a size inside the range of the
\* smallest logical size, a size wider than every logical size.
RegReads == {NoReg, RegPair(2, 2), RegPair(MaxLogical + 1, 1)}

\* The rectangles WM_SIZING comes with: the window dragged to a width from
\* nothing to more than every logical size, and taller than every logical size.
SizingRects == {Rc(1, 2, 1 + w, 2 + MaxLogical + 1) : w \in 0..(MaxLogical + 1)}

\* The client sizes WM_SIZE comes with; (0, 0) is the minimized window.
SizeInputs == {Sz(0, 0), Sz(2, 2), Sz(MaxLogical, 2), Sz(MaxLogical + 1, MaxLogical)}

\* The creation of the primary window, once, with every input.
Main_Create ==
    /\ hist.creates = 0
    /\ WmCreate(CreateInputs(LogicalSizes, RestoreOpts, RegReads))

\* WM_SIZING arrives while the user drags an edge or a corner.
Main_Sizing ==
    /\ MainAlive
    /\ \E wparam \in SizingEdges, rect \in SizingRects :
         LET r == hk_WndProc_main_sizing(wm, wnd, wparam, rect)
         IN wm' = r.wm /\ wnd' = r.wnd /\ ev' = r.ev
    /\ UNCHANGED <<envVars, fnVars, imgVars, patchVars, pc, hostVars>>

\* The system gave the window a new size and sends WM_SIZE.
Main_Size ==
    /\ MainAlive
    /\ \E size \in SizeInputs :
         LET r == hk_WndProc_main_size(wm, [wnd EXCEPT !.size = size, !.noredraw = FALSE],
                                       size)
         IN wm' = r.wm /\ wnd' = r.wnd /\ ev' = r.ev
    /\ UNCHANGED <<envVars, fnVars, imgVars, patchVars, pc, hostVars>>

\* The state after DllMain, a bring-up that installed every hook and the
\* registration of the main window class.
GeoReady ==
    LET h1 == hook_single_fn(hk0, "CreateMutexA", TRUE).h
        r == hk_CreateMutexA([ps0 EXCEPT !.state = "running"], h1, cm0, MutexEnvOk)
    IN /\ pc = "idle"
       /\ ps = r.ps
       /\ cm = r.cm
       /\ hk = hk_RegisterClassA(r.hk, TRUE, TRUE)
       /\ hist = [hist0 EXCEPT !.mutex_calls = 1, !.mutex_orig = 1, !.bringups = 1,
                               !.applied = "true", !.main_registered = TRUE]
       /\ wm = wm0
       /\ wnd = wnd0
       /\ ev = ev0
       /\ registry = registry0
       /\ call = call0
       /\ file_version_buffer = file_version_buffer0
       /\ scroll_value = scroll_value0
       /\ dispatch = dispatch0
       /\ dcs = dcs0

\* The sizes of the primary window: from GeoReady on, in an image whose code
\* cave is too short for the scroll patch.
GeoInit ==
    /\ fin = fin0
    /\ fout = fout0
    /\ ImageInit({"x64"}, {<<"v1", "v2", "none">>}, {1})
    /\ GeoReady

GeoNext ==
    \/ Main_Create
    \/ WmCreate_CallOrig
    \/ Patch_Begin
    \/ Main_Sizing
    \/ Main_Size

SpecGeo == GeoInit /\ [][GeoNext]_vars

(***************************************************************************)
(* Pointer input, hit tests and the hooked functions of user32.            *)
(***************************************************************************)
\* The primary window has a client area, so that the pointer can be over it.
MainVisible == MainAlive /\ wm.cur_cx > 0 /\ wm.cur_cy > 0

\* Where the client area of the primary window is on the screen.
Origins == {Pt(0, 0), Pt(1, 2)}

\* The positions of the mouse messages and of the menus and dialogs.
MousePoints == {Pt(x, y) : x \in {0, 1, MaxLogical}, y \in {1, MaxLogical + 1}}

\* The creation of the primary window, once: every logical size, no restore
\* option, with and without a persisted size.
Input_Create ==
    /\ hist.creates = 0
    /\ WmCreate(CreateInputs(LogicalSizes, {"absent"}, {NoReg, RegPair(2, 2)}))

\* A mouse message arrives at the primary window.
Main_Mouse ==
    /\ MainVisible
    /\ \E msg \in MouseMsgs, pt \in MousePoints :
       \E wparam \in (IF msg = "WM_MOUSEMOVE" THEN {"none", "MK_LBUTTON"} ELSE {"none"}) :
       \E org \in (IF msg = "WM_MOUSEWHEEL" THEN Origins ELSE {Pt(0, 0)}) :
         LET r == hk_WndProc_main_mouse(wm, wnd, msg, wparam, pt, org)
         IN wm' = r.wm /\ wnd' = r.wnd /\ ev' = r.ev
    /\ UNCHANGED <<envVars, fnVars, imgVars, patchVars, pc, hostVars>>

\* The hit tests: a primary window that is larger than the resize corner and
\* the caption strip, and a small one; its sizes; the points; htclient_x1 and
\* htclient_x2 of the flavors.
HitLogicalSizes == {Sz(24, 60), Sz(MaxLogical, MaxLogical)}

HitSizes == {Sz(24, 60), Sz(12, 30), Sz(20, 60), Sz(2, 2)}

HitPoints == {Pt(x, y) : x \in {0, 2, 3, 5, 10, 14, 15, 20, 23},
                         y \in {0, 19, 20, 21, 39, 40, 50, 51, 59}}

Flavors == {[x1 |-> 4, x2 |-> 20], [x1 |-> 0, x2 |-> 3]}

Hit_Create ==
    /\ hist.creates = 0
    /\ WmCreate(CreateInputs(HitLogicalSizes, {"absent"}, {NoReg}))

Hit_Size ==
    /\ MainAlive
    /\ \E size \in HitSizes :
         LET r == hk_WndProc_main_size(wm, [wnd EXCEPT !.size = size, !.noredraw = FALSE],
                                       size)
         IN wm' = r.wm /\ wnd' = r.wnd /\ ev' = r.ev
    /\ UNCHANGED <<envVars, fnVars, imgVars, patchVars, pc, hostVars>>

\* WM_NCHITTEST arrives at the primary window.
Main_NcHitTest ==
    /\ MainVisible
    /\ \E pt \in HitPoints, org \in Origins, af \in Flavors :
         LET r == hk_WndProc_main_nchittest(wm, wnd, pt, org, af)
         IN wm' = r.wm /\ wnd' = r.wnd /\ ev' = r.ev
    /\ UNCHANGED <<envVars, fnVars, imgVars, patchVars, pc, hostVars>>

\* The rectangles the original GetClientRect reports.
RealRects == {Rc(0, 0, 50, 193), Rc(0, 0, 153, 413)}

\* The host calls BeginPaint, GetDC or ReleaseDC.
Host_BeginPaint ==
    /\ Idle
    /\ "BeginPaint" \in hk.active
    /\ \E hwnd \in Windows : ev' = hk_BeginPaint(wm, hwnd)
    /\ UNCHANGED <<envVars, fnVars, imgVars, patchVars, pc, hostVars, wm, wnd>>

Host_GetDC ==
    /\ Idle
    /\ "GetDC" \in hk.active
    /\ \E hwnd \in Windows : ev' = hk_GetDC(wm, hwnd)
    /\ UNCHANGED <<envVars, fnVars, imgVars, patchVars, pc, hostVars, wm, wnd>>

Host_ReleaseDC ==
    /\ Idle
    /\ "ReleaseDC" \in hk.active
    /\ \E hwnd \in Windows : ev' = hk_ReleaseDC(wm, hwnd)
    /\ UNCHANGED <<envVars, fnVars, imgVars, patchVars, pc, hostVars, wm, wnd>>

\* The host calls GetClientRect.
Host_GetClientRect ==
    /\ Idle
    /\ "GetClientRect" \in hk.active
    /\ \E class \in RectClasses, parent \in RectClasses \cup {"none"}, real \in RealRects :
         ev' = hk_GetClientRect(class, parent, real)
    /\ UNCHANGED <<envVars, fnVars, imgVars, patchVars, pc, hostVars, wm, wnd>>

\* The host calls TrackPopupMenu, for a menu shown at one of the points.
TrackPopupMenu_at(points, origins) ==
    /\ Idle
    /\ "TrackPopupMenu" \in hk.active
    /\ \E menu \in {"tray", "other"}, hwnd \in {"main", "other"},
          pt \in points, org \in origins :
         ev' = hk_TrackPopupMenu(wm, menu, hwnd, pt, org)
    /\ UNCHANGED <<envVars, fnVars, imgVars, patchVars, pc, hostVars, wm, wnd>>

\* The host calls DialogBoxIndirectParamA, for a dialog at one of the points.
DialogBoxIndirectParamA_at(points, origins) ==
    /\ Idle
    /\ "DialogBoxIndirectParamA" \in hk.active
    /\ \E kind \in DialogKinds, parent \in {"main", "other"},
          pt \in points, org \in origins :
         ev' = hk_DialogBoxIndirectParamA(wm, kind, parent, pt, org)
    /\ UNCHANGED <<envVars, fnVars, imgVars, patchVars, pc, hostVars, wm, wnd>>

Host_TrackPopupMenu == TrackPopupMenu_at(MousePoints, Origins)

Host_DialogBoxIndirectParamA == DialogBoxIndirectParamA_at(MousePoints, Origins)

\* Pointer input and the placement of menus and dialogs, from GeoReady on.
InputNext ==
    \/ Input_Create
    \/ WmCreate_CallOrig
    \/ Patch_Begin
    \/ Main_Size
    \/ Main_Mouse
    \/ Host_TrackPopupMenu
    \/ Host_DialogBoxIndirectParamA

SpecInput == GeoInit /\ [][InputNext]_vars

\* Hit tests, from GeoReady on.
HitNext ==
    \/ Hit_Create
    \/ WmCreate_CallOrig
    \/ Patch_Begin
    \/ Hit_Size
    \/ Main_NcHitTest

SpecHit == GeoInit /\ [][HitNext]_vars

\* The device contexts and client rectangles the host asks for, from
\* GeoReady on.
QueryNext ==
    \/ Input_Create
    \/ WmCreate_CallOrig
    \/ Patch_Begin
    \/ Host_BeginPaint
    \/ Host_GetDC
    \/ Host_ReleaseDC
    \/ Host_GetClientRect

SpecQuery == GeoInit /\ [][QueryNext]_vars
(***************************************************************************)
(* The audio session hooks (part_001 1209-1377).                           *)
(***************************************************************************)
\* The state after DllMain and a bring-up that installed every hook.
HooksReady ==
    LET h1 == hook_single_fn(hk0, "CreateMutexA", TRUE).h
        r == hk_CreateMutexA([ps0 EXCEPT !.state = "running"], h1, cm0, MutexEnvOk)
    IN /\ pc = "idle"
       /\ ps = r.ps
       /\ cm = r.cm
       /\ hk = r.hk
       /\ hist = [hist0 EXCEPT !.mutex_calls = 1, !.mutex_orig = 1, !.bringups = 1,
                               !.applied = "true"]
       /\ wm = wm0
       /\ wnd = wnd0
       /\ ev = ev0
       /\ registry = registry0
       /\ call = call0
       /\ file_version_buffer = file_version_buffer0
       /\ scroll_value = scroll_value0
       /\ dispatch = dispatch0
       /\ dcs = dcs0

\* What IAudioSessionControl2::GetProcessId returns: S_OK, the success code
\* of a session that spans several processes, or a failure.
ProcessIdResults == {"S_OK", "AUDCLNT_S_NO_SINGLE_PROCESS", "E_FAIL"}
SUCCEEDED(hr) == hr \in {"S_OK", "S_FALSE", "AUDCLNT_S_NO_SINGLE_PROCESS"}

Pids == {4, 8}

foo_exe == <<"f", "b">>
FOO_EXE == <<"F", "b">>
bar_exe == <<"b", "b">>

\* Image names of the processes that own sessions; std::nullopt when the
\* path of the process cannot be read.
AppNames == {NoName} \cup {[has |-> TRUE, val |-> n] : n \in {foo_exe, FOO_EXE, bar_exe}}

\* potato.appBlacklist of the configuration: absent, or up to MaxList
\* entries (an entry may be the empty string).
BlacklistEntries == {<<>>, foo_exe, bar_exe}
Blacklists ==
    {NoList} \cup {[has |-> TRUE, val |-> l] : l \in SeqsUpTo(BlacklistEntries, 0, MaxList)}

\* The host calls IAudioSessionControl2::GetProcessId.
Host_GetProcessId ==
    /\ Idle
    /\ "GetProcessId" \in hk.active
    /\ \E hr \in ProcessIdResults, pid \in Pids, app_name \in AppNames,
          blacklist_opt \in Blacklists :
         call' = hk_GetProcessId(hr, pid, app_name, blacklist_opt)
    /\ UNCHANGED <<layerVars, registry, fnVars, imgVars, geoVars, patchVars, pc, hostVars>>

\* The host calls CoCreateInstance.
Audio_CoCreateInstance ==
    /\ Idle
    /\ "CoCreateInstance" \in hk.active
    /\ \E is_enum \in BOOLEAN, oret \in {"S_OK", "E_FAIL"}, env \in EndpointEnvs,
          attach_ok \in BOOLEAN :
         /\ hk' = hk_CoCreateInstance(hk, is_enum, chain_acquired(oret, env), attach_ok).h
         /\ call' = hk_CoCreateInstance_call(is_enum, hk.optr["GetSessionEnumerator"] # "null",
                                             oret, env)
    /\ UNCHANGED <<layerVars, registry, fnVars, imgVars, geoVars, patchVars, pc, ps, cm, hist>>

AudioInit ==
    /\ fin = fin0
    /\ fout = fout0
    /\ ImageInit({"x64"}, {<<"v1", "v2", "none">>}, {0})
    /\ HooksReady

\* The audio session chain, from HooksReady on.
AudioNext ==
    \/ Audio_CoCreateInstance
    \/ Host_GetSessionEnumerator
    \/ Host_GetSession
    \/ Host_GetProcessId

SpecAudio == AudioInit /\ [][AudioNext]_vars
(***************************************************************************)
(* hk_GetFileVersionInfoW and hk_VerQueryValueW (part_001 1131-1173).      *)
(***************************************************************************)
MaxAliases == 2     \* most entries of potato.appAliasMap

\* The keys of potato.appAliasMap as std::map keeps them: in the order of
\* their bytes ("" < "Fb" < "bb" < "fb").
AliasKeyOrder == << <<>>, FOO_EXE, bar_exe, foo_exe >>

key_rank(k) == CHOOSE i \in 1..Len(AliasKeyOrder) : AliasKeyOrder[i] = k

\* The display names; an alias may be configured as the empty string.
AliasValues == {<<>>, <<"A">>, <<"B">>}

AliasEntries == [k : {AliasKeyOrder[i] : i \in 1..Len(AliasKeyOrder)}, v : AliasValues]

\* config_manager::get_app_aliases: absent, or a map of up to MaxAliases keys.
AliasMaps ==
    {NoList} \cup
    {[has |-> TRUE, val |-> l] :
        l \in {s \in SeqsUpTo(AliasEntries, 0, MaxAliases) :
                 \A i \in 1..(Len(s) - 1) : key_rank(s[i].k) < key_rank(s[i + 1].k)}}

\* for (const auto& [k, v] : *alias_map), from entry i on; buffer is
\* file_version_buffer.  An entry that cannot be converted ends the hook.
RECURSIVE alias_loop(_, _, _, _)
alias_loop(entries, i, file_name, buffer) ==
    IF i > Len(entries) THEN buffer
    ELSE IF ~str_to_wstr(entries[i].k).has \/ ~str_to_wstr(entries[i].v).has THEN buffer
    ELSE IF ~lstrcmpiW_equal(str_to_wstr(entries[i].k).val, file_name)
    THEN alias_loop(entries, i + 1, file_name, buffer)
    ELSE alias_loop(entries, i + 1, file_name, str_to_wstr(entries[i].v).val)

\* hk_GetFileVersionInfoW: what file_version_buffer holds when it returns;
\* file_name is PathFindFileName(lptstrFilename).
hk_GetFileVersionInfoW(alias_map, file_name) ==
    IF ~alias_map.has THEN <<>> ELSE alias_loop(alias_map.val, 1, file_name, <<>>)

\* Every path of hk_GetFileVersionInfoW ends in the original.
hk_GetFileVersionInfoW_call(file_name, oret) ==
    Forwarded([Call("GetFileVersionInfoW", <<file_name>>) EXCEPT
                  !.name = [has |-> TRUE, val |-> file_name]],
              <<file_name>>, oret)

\* L"\\StringFileInfo" and the sub blocks the host asks for.
StringFileInfo ==
    <<"\\", "S", "t", "r", "i", "n", "g", "F", "i", "l", "e", "I", "n", "f", "o">>
VarFileInfo == <<"\\", "V", "a", "r", "F", "i", "l", "e", "I", "n", "f", "o">>
SubBlocks ==
    {<<"\\">>, StringFileInfo \o <<"\\", "P">>, VarFileInfo \o <<"\\", "T">>}

\* wcsncmp(a, b, n) == 0
wcsncmp_equal(a, b, n) == SubSeq(a, 1, Min(n, Len(a))) = SubSeq(b, 1, Min(n, Len(b)))

\* hk_VerQueryValueW; buffer is file_version_buffer.
hk_VerQueryValueW(buffer, lpSubBlock, oret) ==
    LET c == Call("VerQueryValueW", <<lpSubBlock>>)
    IN IF buffer = <<>> \/ ~wcsncmp_equal(lpSubBlock, StringFileInfo, 15)
       THEN Forwarded(c, <<lpSubBlock>>, oret)
       ELSE [c EXCEPT !.ret = "TRUE", !.name = [has |-> TRUE, val |-> buffer]]
(***************************************************************************)
(* The version-resource hooks, from a bring-up that loaded some            *)
(* potato.appAliasMap on.                                                  *)
(***************************************************************************)
VersionInit ==
    /\ fin = fin0
    /\ fout = fout0
    /\ ImageInit({"x64"}, {<<"v1", "v2", "none">>}, {0})
    /\ LET h1 == hook_single_fn(hk0, "CreateMutexA", TRUE).h
           r == hk_CreateMutexA([ps0 EXCEPT !.state = "running"], h1, cm0, MutexEnvOk)
       IN /\ pc = "idle"
          /\ ps = r.ps
          /\ \E aliases \in AliasMaps : cm = [r.cm EXCEPT !.app_aliases = aliases]
          /\ hk = r.hk
          /\ hist = [hist0 EXCEPT !.mutex_calls = 1, !.mutex_orig = 1, !.bringups = 1,
                                  !.applied = "true"]
          /\ wm = wm0
          /\ wnd = wnd0
          /\ ev = ev0
          /\ registry = registry0
          /\ call = call0
          /\ file_version_buffer = file_version_buffer0
          /\ scroll_value = scroll_value0
          /\ dispatch = dispatch0
          /\ dcs = dcs0

\* The host loads the version resource of a file.
Host_GetFileVersionInfoW ==
    /\ Idle
    /\ "GetFileVersionInfoW" \in hk.active
    /\ \E file_name \in {foo_exe, FOO_EXE, bar_exe}, oret \in {"TRUE", "FALSE"} :
         /\ file_version_buffer' = hk_GetFileVersionInfoW(cm.app_aliases, file_name)
         /\ call' = hk_GetFileVersionInfoW_call(file_name, oret)
    /\ UNCHANGED <<scroll_value, dispatch, dcs, registry, fnVars, imgVars, geoVars, patchVars, pc, hostVars>>

\* The host asks for a value of a version resource.
Host_VerQueryValueW ==
    /\ Idle
    /\ "VerQueryValueW" \in hk.active
    /\ \E lpSubBlock \in SubBlocks, oret \in {"TRUE", "FALSE"} :
         call' = hk_VerQueryValueW(file_version_buffer, lpSubBlock, oret)
    /\ UNCHANGED <<layerVars, registry, fnVars, imgVars, geoVars, patchVars, pc, hostVars>>

VersionNext ==
    \/ Host_GetFileVersionInfoW
    \/ Host_VerQueryValueW

SpecVersion == VersionInit /\ [][VersionNext]_vars
(***************************************************************************)
(* The audio session chain with what every call hands to its original.     *)
(***************************************************************************)
\* The host calls IAudioSessionManager2::GetSessionEnumerator.
Chain_GetSessionEnumerator ==
    /\ Idle
    /\ "GetSessionEnumerator" \in hk.active
    /\ \E oret \in {"S_OK", "E_FAIL"}, attach_ok \in BOOLEAN :
         LET r == hk_GetSessionEnumerator(hk, oret = "S_OK", attach_ok)
         IN /\ hk' = r.h
            /\ ps' = IF r.fault THEN [ps EXCEPT !.state = "crashed"] ELSE ps
            /\ call' = hk_GetSessionEnumerator_call(hk.optr["GetSession"] # "null", oret)
    /\ UNCHANGED <<layerVars, registry, fnVars, imgVars, geoVars, patchVars, pc, cm, hist>>

\* The host calls IAudioSessionEnumerator::GetSession.
Chain_GetSession ==
    /\ Idle
    /\ "GetSession" \in hk.active
    /\ \E oret \in {"S_OK", "E_FAIL"}, env \in QueryEnvs, attach_ok1 \in BOOLEAN,
          attach_ok2 \in BOOLEAN :
         LET r == hk_GetSession(hk, session_acquired(oret, env), attach_ok1, attach_ok2)
         IN /\ hk' = r.h
            /\ ps' = IF r.fault THEN [ps EXCEPT !.state = "crashed"] ELSE ps
            /\ call' = hk_GetSession_call(hk.optr["GetProcessId"] # "null"
                                            \/ hk.optr["IsSystemSoundsSession"] # "null",
                                          oret, env)
    /\ UNCHANGED <<layerVars, registry, fnVars, imgVars, geoVars, patchVars, pc, cm, hist>>

ChainNext ==
    \/ Audio_CoCreateInstance
    \/ Chain_GetSessionEnumerator
    \/ Chain_GetSession

SpecChain == AudioInit /\ [][ChainNext]_vars
(***************************************************************************)
(* The life of the windows: creation, WM_SIZE, WM_DESTROY, and the size    *)
(* kept in the registry.                                                   *)
(***************************************************************************)
\* The flavor of the running host: the secondary windows are Potato's.
RunningFlavor == SomeFlavor("FLAVOR_POTATO")

\* The primary window exists and window_manager has a context for it.
MainTracked == MainAlive /\ is_in_map(wm, "main")

\* The logical sizes of the primary window here.
StoreLogicalSizes == {Sz(3, 2), Sz(MaxLogical, MaxLogical)}

\* The primary window is created, with the size the registry has for the
\* running flavor.
Store_Create ==
    /\ ~is_in_map(wm, "main")
    /\ WmCreate(CreateInputs(StoreLogicalSizes, {"absent"},
                             {reg_get_wnd_size(registry, RunningFlavor)}))

Store_Size == MainTracked /\ Main_Size

\* WM_DESTROY arrives at the primary window.
Main_Destroy ==
    /\ MainTracked
    /\ \E env \in SaveEnvs :
         LET r == hk_WndProc_main_destroy(wm, wnd, registry, RunningFlavor, env)
         IN wm' = r.wm /\ wnd' = r.wnd /\ ev' = r.ev /\ registry' = r.registry
    /\ UNCHANGED <<layerVars, call, fnVars, imgVars, patchVars, pc, hostVars>>

\* The rectangles secondary windows are created with.
ChildRects == {Xywh(1, 2, 3, MaxLogical)}

\* WM_CREATE arrives at a secondary window.
Child_Create(rects) ==
    /\ MainTracked
    /\ \E hwnd \in ChildWindows \ wm.tracked, cs \in rects :
         LET r == hk_WndProc_child_create(wm, wnd, hwnd, cs)
         IN wm' = r.wm /\ wnd' = r.wnd /\ ev' = r.ev
    /\ UNCHANGED <<envVars, fnVars, imgVars, patchVars, pc, hostVars>>

Store_ChildCreate == Child_Create(ChildRects)

\* WM_DESTROY arrives at a secondary window.
Child_Destroy ==
    /\ Idle
    /\ \E hwnd \in ChildWindows \cap wm.tracked :
         LET r == hk_WndProc_child_destroy(wm, wnd, hwnd)
         IN wm' = r.wm /\ wnd' = r.wnd /\ ev' = r.ev
    /\ UNCHANGED <<envVars, fnVars, imgVars, patchVars, pc, hostVars>>

StoreNext ==
    \/ Store_Create
    \/ WmCreate_CallOrig
    \/ Patch_Begin
    \/ Store_Size
    \/ Main_Destroy
    \/ Store_ChildCreate
    \/ Child_Destroy

SpecStore == GeoInit /\ [][StoreNext]_vars
(***************************************************************************)
(* The current size of the primary window over its whole life: creation    *)
(* with whatever the registry holds, WM_SIZING, WM_SIZE and WM_DESTROY.    *)
(***************************************************************************)
\* The logical sizes here: wider than high, and higher than wide with an
\* odd width.
LifeLogicalSizes == {Sz(4, 2), Sz(3, 4)}

\* The primary window is created; the registry holds what an earlier run
\* saved, or any other pair.
Life_Create ==
    /\ ~is_in_map(wm, "main")
    /\ WmCreate(CreateInputs(LifeLogicalSizes, {"absent"},
                             {RegPair(9, 1), reg_get_wnd_size(registry, RunningFlavor)}))

\* WM_SIZING for the corner and for an edge, to a width below half and above
\* the whole of every logical size.
Life_Sizing ==
    /\ MainTracked
    /\ \E wparam \in {"WMSZ_BOTTOMRIGHT", "WMSZ_LEFT"}, rect \in {Rc(1, 2, 2, 9), Rc(1, 2, 9, 9)} :
         LET r == hk_WndProc_main_sizing(wm, wnd, wparam, rect)
         IN wm' = r.wm /\ wnd' = r.wnd /\ ev' = r.ev
    /\ UNCHANGED <<envVars, fnVars, imgVars, patchVars, pc, hostVars>>

\* WM_SIZE for the minimized window and for a small one.
Life_Size ==
    /\ MainTracked
    /\ \E size \in {Sz(0, 0), Sz(2, 2)} :
         LET r == hk_WndProc_main_size(wm, [wnd EXCEPT !.size = size, !.noredraw = FALSE],
                                       size)
         IN wm' = r.wm /\ wnd' = r.wnd /\ ev' = r.ev
    /\ UNCHANGED <<envVars, fnVars, imgVars, patchVars, pc, hostVars>>

\* WM_DESTROY; the registry calls of the save succeed.
Life_Destroy ==
    /\ MainTracked
    /\ LET r == hk_WndProc_main_destroy(wm, wnd, registry, RunningFlavor, "ok")
       IN wm' = r.wm /\ wnd' = r.wnd /\ ev' = r.ev /\ registry' = r.registry
    /\ UNCHANGED <<layerVars, call, fnVars, imgVars, patchVars, pc, hostVars>>

LifeNext ==
    \/ Life_Create
    \/ WmCreate_CallOrig
    \/ Patch_Begin
    \/ Life_Sizing
    \/ Life_Size
    \/ Life_Destroy

SpecLife == GeoInit /\ [][LifeNext]_vars
(***************************************************************************)
(* GetDC and ReleaseDC while windows enter and leave window_manager.       *)
(***************************************************************************)
\* The windows the host asks a device context for.
DcWindows == {"main", "other"}

\* The host calls GetDC(hwnd) and keeps what it returns.
DC_Get ==
    /\ Idle
    /\ "GetDC" \in hk.active
    /\ \E hwnd \in DcWindows :
         /\ dcs[hwnd] = "none"
         /\ ev' = hk_GetDC(wm, hwnd)
         /\ dcs' = [dcs EXCEPT ![hwnd] = IF ev'.orig THEN "window_dc" ELSE "mem_dc"]
    /\ UNCHANGED <<file_version_buffer, scroll_value, dispatch, registry, call, fnVars,
                   imgVars, patchVars, pc, hostVars, wm, wnd>>

\* The host calls ReleaseDC(hwnd, hdc) with the device context it keeps.
DC_Release ==
    /\ Idle
    /\ "ReleaseDC" \in hk.active
    /\ \E hwnd \in DcWindows :
         /\ dcs[hwnd] # "none"
         /\ ev' = hk_ReleaseDC(wm, hwnd)
         /\ dcs' = [dcs EXCEPT ![hwnd] = "none"]
    /\ UNCHANGED <<file_version_buffer, scroll_value, dispatch, registry, call, fnVars,
                   imgVars, patchVars, pc, hostVars, wm, wnd>>

DCNext ==
    \/ Store_Create
    \/ WmCreate_CallOrig
    \/ Patch_Begin
    \/ Main_Destroy
    \/ DC_Get
    \/ DC_Release

SpecDC == GeoInit /\ [][DCNext]_vars
(***************************************************************************)
(* hk_WndProc_main message by message (part_001 558-777): a SendMessage to *)
(* the window enters hk_WndProc_main again before it returns, so the       *)
(* messages being handled form a stack.                                    *)
(***************************************************************************)
\* The messages delivered to the primary window here, and their wParam.
DispatchMsgs ==
    {"WM_TIMER", "WM_DISPLAYCHANGE", "WM_SIZING", "WM_SIZE", "WM_PAINT",
     "WM_ERASEBKGND", "WM_DESTROY", "WM_MOUSEMOVE", "WM_MOUSEWHEEL"}

WParamsOf(msg) ==
    IF msg = "WM_TIMER" THEN {"12346", "1"}
    ELSE IF msg = "WM_SIZING" THEN {"WMSZ_BOTTOMRIGHT", "WMSZ_LEFT"}
    ELSE IF msg = "WM_MOUSEMOVE" THEN {"MK_LBUTTON", "0"}
    ELSE IF msg = "WM_MOUSEWHEEL" THEN {"VK_SHIFT", "0"}
    ELSE {"0"}

Sent(msg, wparam) == [msg |-> msg, wparam |-> wparam]

\* WM_DISPLAYCHANGE sending WM_DISPLAYCHANGE where it sends WM_PAINT.
sends_displaychange_again(msg, wparam) ==
    IF msg = "WM_DISPLAYCHANGE"
    THEN <<Sent("WM_ERASEBKGND", "0"), Sent("WM_DISPLAYCHANGE", "0")>>
    ELSE IF msg = "WM_SIZING" /\ wparam = "WMSZ_BOTTOMRIGHT" THEN <<Sent("WM_TIMER", "12346")>>
    ELSE IF msg = "WM_PAINT" THEN <<Sent("WM_TIMER", "12346")>>
    ELSE IF msg = "WM_MOUSEMOVE" /\ wparam = "MK_LBUTTON" THEN <<Sent("WM_TIMER", "12346")>>
    ELSE <<>>

\* The SendMessage calls of the handler of msg, in order (part_001 574-575,
\* 625, 727, 747).
sends(msg, wparam) ==
    IF msg = "WM_DISPLAYCHANGE" THEN <<Sent("WM_ERASEBKGND", "0"), Sent("WM_PAINT", "0")>>
    ELSE IF msg = "WM_SIZING" /\ wparam = "WMSZ_BOTTOMRIGHT" THEN <<Sent("WM_TIMER", "12346")>>
    ELSE IF msg = "WM_PAINT" THEN <<Sent("WM_TIMER", "12346")>>
    ELSE IF msg = "WM_MOUSEMOVE" /\ wparam = "MK_LBUTTON" THEN <<Sent("WM_TIMER", "12346")>>
    ELSE <<>>

\* The handlers that call wm->get_wctx(hwnd) (part_001 572, 707, 756, 768).
reads_wctx(msg) == msg \in {"WM_DISPLAYCHANGE", "WM_SIZING", "WM_ERASEBKGND", "WM_DESTROY"}

\* The handler of msg was entered: d is dispatch before, w window_manager.
entered_handler(d, w, msg, wparam) ==
    [stack |-> Append(d.stack, [msg |-> msg, wparam |-> wparam, sent |-> 0]),
     entered |-> d.entered + 1,
     reads |-> IF reads_wctx(msg) THEN Append(d.reads, is_in_map(w, "main")) ELSE d.reads]

\* The context get_wctx gives for a window that is not in the map, when it
\* gives one: no logical size.
no_wctx(w) == [w EXCEPT !.default_cx = 0, !.default_cy = 0]

\* The assignment of scroll_value with the two steps exchanged.
wheel_scroll_value_exchanged(c, shift_down, cur) ==
    IF c.fader_shift_scroll_step.has /\ c.fader_scroll_step.has
    THEN IF shift_down THEN c.fader_scroll_step.val ELSE c.fader_shift_scroll_step.val
    ELSE cur

\* if (shift_val && normal_val) scroll_value = GetAsyncKeyState(VK_SHIFT) &
\* 0x8000 ? *shift_val : *normal_val;  (part_001 602-606)
wheel_scroll_value(c, shift_down, cur) ==
    IF c.fader_shift_scroll_step.has /\ c.fader_scroll_step.has
    THEN IF shift_down THEN c.fader_shift_scroll_step.val ELSE c.fader_scroll_step.val
    ELSE cur

\* What the handler of msg does before its first SendMessage, apart from
\* get_wctx: w is window_manager with the context it read, n the window,
\* hkcu the registry, sv scroll_value, c config_manager; rect, size and env
\* are what WM_SIZING, WM_SIZE and the registry calls come with.
hk_WndProc_main_entry(w, n, hkcu, sv, c, msg, wparam, rect, size, env) ==
    LET same == [wm |-> w, wnd |-> n, registry |-> hkcu, scroll_value |-> sv]
    IN IF msg = "WM_SIZING"
       THEN [same EXCEPT !.wm = hk_WndProc_main_sizing(w, n, wparam, rect).wm]
       ELSE IF msg = "WM_SIZE"
       THEN LET r == hk_WndProc_main_size(w, [n EXCEPT !.size = size, !.noredraw = FALSE],
                                          size)
            IN [same EXCEPT !.wm = r.wm, !.wnd = r.wnd]
       ELSE IF msg = "WM_DESTROY"
       THEN LET r == hk_WndProc_main_destroy(w, n, hkcu, RunningFlavor, env)
            IN [same EXCEPT !.wm = r.wm, !.wnd = r.wnd, !.registry = r.registry]
       ELSE IF msg = "WM_MOUSEWHEEL"
       THEN [same EXCEPT !.scroll_value = wheel_scroll_value(c, wparam = "VK_SHIFT", sv)]
       ELSE same

\* What the steps of the configuration may be: absent, or a step in tenths.
FaderSteps == {[has |-> FALSE, val |-> 0], [has |-> TRUE, val |-> 10]}
FaderShiftSteps == {[has |-> FALSE, val |-> 0], [has |-> TRUE, val |-> 50]}

\* What WM_SIZING, WM_SIZE, the registry calls and WM_CREATE come with here.
DispatchRects == {Rc(1, 2, 3, 4)}
DispatchSizes == {Sz(2, 2)}
DispatchEnvs == {"ok", "create_fails"}
DispatchLogicalSizes == {Sz(3, 2)}

\* As GeoInit, with the scroll steps the configuration file gave.
DispatchInit ==
    /\ fin = fin0
    /\ fout = fout0
    /\ ImageInit({"x64"}, {<<"v1", "v2", "none">>}, {1})
    /\ LET h1 == hook_single_fn(hk0, "CreateMutexA", TRUE).h
           r == hk_CreateMutexA([ps0 EXCEPT !.state = "running"], h1, cm0, MutexEnvOk)
       IN /\ pc = "idle"
          /\ ps = r.ps
          /\ \E normal_val \in FaderSteps, shift_val \in FaderShiftSteps :
               cm = [r.cm EXCEPT !.fader_scroll_step = normal_val,
                                 !.fader_shift_scroll_step = shift_val]
          /\ hk = hk_RegisterClassA(r.hk, TRUE, TRUE)
          /\ hist = [hist0 EXCEPT !.mutex_calls = 1, !.mutex_orig = 1, !.bringups = 1,
                                  !.applied = "true", !.main_registered = TRUE]
          /\ wm = wm0
          /\ wnd = wnd0
          /\ ev = ev0
          /\ registry = registry0
          /\ call = call0
          /\ file_version_buffer = file_version_buffer0
          /\ scroll_value = scroll_value0
          /\ dispatch = dispatch0
          /\ dcs = dcs0

\* hk_WndProc_main is entered for msg; d is dispatch at the call.  A context
\* read for a window that is not in the map either ends the process or
\* gives a context without sizes.
Enter(d, msg, wparam) ==
    LET d1 == entered_handler(d, wm, msg, wparam)
        lost == reads_wctx(msg) /\ ~is_in_map(wm, "main")
    IN \/ /\ lost
          /\ ps' = [ps EXCEPT !.state = "crashed"]
          /\ dispatch' = [d1 EXCEPT !.stack = <<>>]
          /\ UNCHANGED <<wm, wnd, registry, scroll_value>>
       \/ /\ ps' = ps
          /\ dispatch' = d1
          /\ \E rect \in DispatchRects, size \in DispatchSizes, env \in DispatchEnvs :
               LET r == hk_WndProc_main_entry(IF lost THEN no_wctx(wm) ELSE wm, wnd,
                                              registry, scroll_value, cm, msg, wparam,
                                              rect, size, env)
               IN /\ wm' = [r.wm EXCEPT !.default_cx = wm.default_cx,
                                        !.default_cy = wm.default_cy]
                  /\ wnd' = r.wnd
                  /\ registry' = r.registry
                  /\ scroll_value' = r.scroll_value

DispatchFrame == <<file_version_buffer, dcs, call, ev, fnVars, imgVars, patchVars, pc, hk, cm, hist>>

\* The creation of the primary window, between two messages.
Dispatch_Create ==
    /\ dispatch.stack = <<>>
    /\ ~is_in_map(wm, "main")
    /\ WmCreate(CreateInputs(DispatchLogicalSizes, {"absent"},
                             {reg_get_wnd_size(registry, RunningFlavor)}))

\* The host's message loop, or another sender, hands a message to the
\* procedure of the primary window.
Dispatch_Deliver ==
    /\ Idle
    /\ "WndProc_main" \in hk.active
    /\ dispatch.stack = <<>>
    /\ \E msg \in DispatchMsgs : \E wparam \in WParamsOf(msg) : Enter(dispatch0, msg, wparam)
    /\ UNCHANGED DispatchFrame

\* The handler on top calls SendMessage: the handler of the message sent is
\* entered.
Dispatch_Send ==
    /\ Idle
    /\ dispatch.stack # <<>>
    /\ LET top == dispatch.stack[Len(dispatch.stack)]
           out == sends(top.msg, top.wparam)
       IN /\ top.sent < Len(out)
          /\ Enter([dispatch EXCEPT !.stack[Len(dispatch.stack)].sent = top.sent + 1],
                   out[top.sent + 1].msg, out[top.sent + 1].wparam)
    /\ UNCHANGED DispatchFrame

\* The handler on top has sent all its messages and returns.
Dispatch_Return ==
    /\ Idle
    /\ dispatch.stack # <<>>
    /\ LET top == dispatch.stack[Len(dispatch.stack)]
       IN top.sent = Len(sends(top.msg, top.wparam))
    /\ dispatch' = [dispatch EXCEPT !.stack = SubSeq(@, 1, Len(@) - 1)]
    /\ UNCHANGED <<wm, wnd, registry, scroll_value, ps, DispatchFrame>>

DispatchNext ==
    \/ Dispatch_Create
    \/ WmCreate_CallOrig
    \/ Patch_Begin
    \/ Dispatch_Deliver
    \/ Dispatch_Send
    \/ Dispatch_Return

SpecDispatch == DispatchInit /\ [][DispatchNext]_vars

\* SendMessage is a call: the handler that was entered runs on, and returns,
\* as long as the original procedure returns.
SpecDispatchFair ==
    /\ DispatchInit
    /\ [][DispatchNext]_vars
    /\ WF_vars(Dispatch_Send)
    /\ WF_vars(Dispatch_Return)
(***************************************************************************)
(* The window procedures from the registration of the classes on: which    *)
(* procedure gets the messages of the primary and the secondary windows.   *)
(***************************************************************************)
LateInit ==
    /\ fin = fin0
    /\ fout = fout0
    /\ ImageInit({"x64"}, {<<"v1", "v2", "none">>}, {1})
    /\ HooksReady

\* The primary window is created and its procedure is detoured.
Late_CreateMain ==
    /\ hist.main_registered
    /\ hist.creates = 0
    /\ WmCreate(CreateInputs({Sz(3, 2)}, {"false"}, {NoReg}))

\* A message of the primary window while its procedure is not detoured.
Late_MainDirect ==
    /\ Idle
    /\ hist.main_registered
    /\ ~enters_replacement(hk, "WndProc_main")
    /\ \E msg \in {"WM_CREATE", "WM_DESTROY"} : call' = Direct("main", msg)
    /\ UNCHANGED <<layerVars, registry, fnVars, imgVars, geoVars, patchVars, pc, hostVars>>

\* The host creates a window under the primary window; the secondary
\* windows are followed under a tracked primary window.
Late_CreateWindowExA ==
    /\ MainTracked
    /\ "CreateWindowExA" \in hk.active
    /\ \E lparam_null \in BOOLEAN, class \in WndClasses, wnd_id \in WndIds,
          attach_ok \in BOOLEAN, cs \in ChildRects :
         LET r == hk_CreateWindowExA_creating(hk, lparam_null, class, wnd_id, attach_ok)
             hwnd == window_of(r.slot)
             c == hk_WndProc_child_create(wm, wnd, hwnd, cs)
         IN /\ hwnd \notin wm.tracked
            /\ hk' = r.h
            /\ IF r.slot = "none" THEN UNCHANGED <<wm, wnd, ev, call>>
               ELSE IF r.hooked
               THEN wm' = c.wm /\ wnd' = c.wnd /\ ev' = c.ev /\ call' = call
               ELSE call' = Direct(hwnd, "WM_CREATE") /\ UNCHANGED <<wm, wnd, ev>>
    /\ UNCHANGED <<layerVars, registry, fnVars, imgVars, patchVars, pc, ps, cm, hist>>

\* A later message of a secondary window whose procedure is not detoured;
\* the window was created when its slot holds the procedure's address.
Late_ChildDirect ==
    /\ MainTracked
    /\ \E slot \in {"WndProc_denoiser", "WndProc_comp", "WndProc_wdb"} :
         /\ hk.optr[slot] # "null"
         /\ ~enters_replacement(hk, slot)
         /\ call' = Direct(window_of(slot), "WM_DESTROY")
    /\ UNCHANGED <<layerVars, registry, fnVars, imgVars, geoVars, patchVars, pc, hostVars>>

LateNext ==
    \/ Host_RegisterClassA
    \/ Late_CreateMain
    \/ WmCreate_CallOrig
    \/ Patch_Begin
    \/ Late_MainDirect
    \/ Late_CreateWindowExA
    \/ Child_Destroy
    \/ Late_ChildDirect

SpecLate == LateInit /\ [][LateNext]_vars
(***************************************************************************)
(* The rectangles of the secondary windows under a resized primary window. *)
(***************************************************************************)
\* The logical sizes of the primary window here.
ScaleLogicalSizes == {Sz(3, 2), Sz(1920, 1080)}

\* The client sizes WM_SIZE comes with here.
ScaleSizeInputs == {Sz(2, 1), Sz(3, 1), Sz(1280, 720), Sz(1280, 1080)}

\* The rectangles secondary windows are created with here.
ScaleRects == {Xywh(800, 400, 300, 200), Xywh(1, 2, 3, 4)}

\* The primary window is created, without a size to restore.
Scale_Create ==
    /\ hist.creates = 0
    /\ WmCreate(CreateInputs(ScaleLogicalSizes, {"false"}, {NoReg}))

\* The user dragged the primary window to a new size.
Scale_Size ==
    /\ MainTracked
    /\ \E size \in ScaleSizeInputs :
         LET r == hk_WndProc_main_size(wm, [wnd EXCEPT !.size = size, !.noredraw = FALSE],
                                       size)
         IN wm' = r.wm /\ wnd' = r.wnd /\ ev' = r.ev
    /\ UNCHANGED <<envVars, fnVars, imgVars, patchVars, pc, hostVars>>

Scale_ChildCreate == Child_Create(ScaleRects)

ScaleNext ==
    \/ Scale_Create
    \/ WmCreate_CallOrig
    \/ Patch_Begin
    \/ Scale_Size
    \/ Scale_ChildCreate
    \/ Child_Destroy

SpecScale == GeoInit /\ [][ScaleNext]_vars
(***************************************************************************)
(* The hooks that change one case of a function and hand every other call  *)
(* to the original.                                                        *)
(***************************************************************************)
\* What an original returns: a value that tells success or one that tells
\* failure.
OrigResults == {"ok", "failed"}

\* The primary window is created, once, with its largest logical size and a
\* persisted size.
Pass_Create ==
    /\ hist.creates = 0
    /\ WmCreate(CreateInputs({Sz(MaxLogical, MaxLogical)}, {"absent"}, {RegPair(2, 2)}))

\* The host calls SetTimer.
Host_SetTimer ==
    /\ Idle
    /\ "SetTimer" \in hk.active
    /\ \E hWnd \in {"main", "other"}, nIDEvent \in {12346, 1},
          interval \in {None, Some(16)}, oret \in OrigResults :
         call' = hk_SetTimer(hWnd, nIDEvent, 15, interval, oret)
    /\ UNCHANGED <<layerVars, registry, fnVars, imgVars, geoVars, patchVars, pc, hostVars>>

\* The host calls Rectangle.
Host_Rectangle ==
    /\ Idle
    /\ "Rectangle" \in hk.active
    /\ \E cur_flavor \in {NoFlavor, SomeFlavor("FLAVOR_BANANA"), SomeFlavor("FLAVOR_POTATO")},
          corner \in {<<1469, 15>>, <<848, 15>>, <<1469, 581>>}, oret \in OrigResults :
         call' = hk_Rectangle(cur_flavor, corner[1], corner[2], corner[1] + 20,
                              corner[2] + 10, oret)
    /\ UNCHANGED <<layerVars, registry, fnVars, imgVars, geoVars, patchVars, pc, hostVars>>

\* The host calls SetWindowPos.
Host_SetWindowPos ==
    /\ Idle
    /\ "SetWindowPos" \in hk.active
    /\ \E hWnd \in {"main", "other", "none"}, oret \in OrigResults :
       \E root \in (IF hWnd = "none" THEN {FALSE} ELSE {TRUE}) :
         call' = hk_SetWindowPos(wm, hWnd, <<1, 2, MaxLogical, MaxLogical>>, root, oret)
    /\ UNCHANGED <<layerVars, registry, fnVars, imgVars, geoVars, patchVars, pc, hostVars>>

\* The host calls OpenProcess.
Host_OpenProcess ==
    /\ Idle
    /\ "OpenProcess" \in hk.active
    /\ \E dwDesiredAccess \in AccessMasks, dwProcessId \in Pids, oret \in OrigResults :
         call' = hk_OpenProcess(dwDesiredAccess, FALSE, dwProcessId, oret)
    /\ UNCHANGED <<layerVars, registry, fnVars, imgVars, geoVars, patchVars, pc, hostVars>>

\* The host creates a window of the wdb class or of another class.
Pass_CreateWindowExA ==
    /\ Idle
    /\ "CreateWindowExA" \in hk.active
    /\ \E lparam_null \in BOOLEAN, class \in {"wdb", "other"}, wnd_id \in {1000, 1003},
          oret \in OrigResults :
         /\ hk' = hk_CreateWindowExA(hk, lparam_null, class, wnd_id, TRUE)
         /\ call' = hk_CreateWindowExA_call(lparam_null, class, wnd_id, oret)
    /\ UNCHANGED <<layerVars, registry, fnVars, imgVars, geoVars, patchVars, pc, ps, cm, hist>>

\* A menu and a dialog at one place of the screen.
Pass_TrackPopupMenu == TrackPopupMenu_at({Pt(1, MaxLogical + 1)}, {Pt(1, 2)})

Pass_DialogBoxIndirectParamA == DialogBoxIndirectParamA_at({Pt(1, MaxLogical + 1)}, {Pt(1, 2)})

PassNext ==
    \/ Pass_Create
    \/ WmCreate_CallOrig
    \/ Patch_Begin
    \/ Host_SetTimer
    \/ Host_Rectangle
    \/ Host_SetWindowPos
    \/ Host_OpenProcess
    \/ Pass_CreateWindowExA
    \/ Pass_TrackPopupMenu
    \/ Pass_DialogBoxIndirectParamA
    \/ Host_GetClientRect

SpecPass == GeoInit /\ [][PassNext]_vars
(***************************************************************************)
(* reg_save_wnd_size and reg_get_wnd_size on their own, for the hosts of   *)
(* two flavors that share the registry of the user.                        *)
(***************************************************************************)
\* What get_current_flavor_id gives in the two hosts, or when it fails.
RegFlavors == {NoFlavor, SomeFlavor("FLAVOR_BANANA"), SomeFlavor("FLAVOR_POTATO")}

\* The widths and heights saved.
RegSizes == {1, 2}

DoRegSave ==
    /\ Idle
    /\ \E cur_flavor \in RegFlavors, width \in RegSizes, height \in RegSizes, env \in SaveEnvs :
         LET r == reg_save_wnd_size(registry, cur_flavor, width, height, env)
         IN /\ registry' = r.hkcu
            /\ call' = [Call("reg_save_wnd_size", <<cur_flavor, width, height>>) EXCEPT
                          !.ret = IF r.done THEN "done" ELSE "failed"]
    /\ UNCHANGED <<layerVars, fnVars, imgVars, geoVars, patchVars, pc, hostVars>>

DoRegGet ==
    /\ Idle
    /\ \E cur_flavor \in RegFlavors :
         LET r == reg_get_wnd_size(registry, cur_flavor)
         IN call' = [Call("reg_get_wnd_size", <<cur_flavor>>) EXCEPT
                       !.fwd = reg_get_wnd_size_opens(cur_flavor),
                       !.ret = IF r.has THEN "true" ELSE "false", !.out = r]
    /\ UNCHANGED <<layerVars, registry, fnVars, imgVars, geoVars, patchVars, pc, hostVars>>

RegNext ==
    \/ DoRegSave
    \/ DoRegGet

SpecReg == AudioInit /\ [][RegNext]_vars
(***************************************************************************)
(* The utility functions applied to bounded inputs.                        *)
(***************************************************************************)
Signatures ==
    {[pattern |-> p, mask |-> m] :
        p \in SeqsUpTo(ScanBytes, 0, MaxPatLen), m \in SeqsUpTo(MaskChars, 0, MaxPatLen)}

SigInputs ==
    {[op |-> "find_signatures", sig |-> s, img |-> b, resolved |-> r,
      sections |-> NoSections, size |-> 0] :
        s \in {x \in Signatures : Len(x.pattern) = Len(x.mask)},
        b \in SeqsUpTo(ScanBytes, 1, MaxImgLen), r \in BOOLEAN}

\* Section tables: .text (ending at offset 2 of the modelled memory) before
\* or after a data section, or no .text section at all.
SectionTables ==
    {<<[name |-> DotText, va |-> 0, vsize |-> 2]>>,
     <<[name |-> DotText, va |-> 0, vsize |-> 2], [name |-> RdataName, va |-> 6, vsize |-> 1]>>,
     <<[name |-> DataName, va |-> 6, vsize |-> 1], [name |-> DotText, va |-> 1, vsize |-> 1]>>,
     <<[name |-> DataName, va |-> 0, vsize |-> 2], [name |-> RdataName, va |-> 2, vsize |-> 1]>>,
     <<>>}

CaveInputs ==
    {[op |-> "find_code_cave", sig |-> [pattern |-> <<>>, mask |-> <<>>],
      img |-> <<1, 1>> \o t, resolved |-> TRUE, sections |-> st, size |-> n] :
        t \in [1..MaxTail -> ScanBytes], st \in SectionTables, n \in 0..MaxCaveReq}

FnInit ==
    /\ fin \in SigInputs \cup CaveInputs
    /\ fout = [done |-> FALSE,
               scan |-> [occ |-> <<>>, fault |-> FALSE, oob |-> FALSE],
               cave |-> None]
    /\ ImageInit({"x64"}, {<<"v1", "v2", "none">>}, {0})
    /\ HostInit

DoFindSignatures ==
    /\ fin.op = "find_signatures"
    /\ ~fout.done
    /\ fout' = [fout EXCEPT !.done = TRUE, !.scan = find_signatures(fin.sig, fin.img, fin.resolved)]
    /\ UNCHANGED <<envVars, fin, imgVars, geoVars, patchVars, pc, hostVars>>

DoFindCodeCave ==
    /\ fin.op = "find_code_cave"
    /\ ~fout.done
    /\ fout' = [fout EXCEPT !.done = TRUE,
                             !.cave = find_code_cave(fin.sections, fin.img, fin.size)]
    /\ UNCHANGED <<envVars, fin, imgVars, geoVars, patchVars, pc, hostVars>>

FnNext == DoFindSignatures \/ DoFindCodeCave

SpecFn == FnInit /\ [][FnNext]_vars

(***************************************************************************)
(* Claims about the utility functions.                                     *)
(***************************************************************************)
\* The offsets the scanner is specified to return: every i with
\* 0 <= i <= size - len(pattern) whose non-wildcard positions all agree.
MatchingOffsets(sig, img) ==
    {i \in 0..(Len(img) - Len(sig.pattern)) :
        \A j \in 1..Len(sig.pattern) :
            sig.mask[j] # "?" => sig.pattern[j] = img[i + j]}

IsAscending(s) == \A a, b \in 1..Len(s) : a < b => s[a] < s[b]

ScanDone == fin.op = "find_signatures" /\ fout.done /\ fin.resolved

\* C1: for every signature and every image, find_signatures returns, in
\* ascending order, exactly the offsets 0 <= i <= size - len(pattern) at which
\* all non-wildcard bytes agree.
C1_ScanExact ==
    ScanDone =>
        /\ ~fout.scan.fault
        /\ SeqRange(fout.scan.occ) = MatchingOffsets(fin.sig, fin.img)
        /\ IsAscending(fout.scan.occ)

\* The same statement for the signatures that fit into the image.
C1_ScanExactWhenFits ==
    (ScanDone /\ Len(fin.sig.pattern) <= Len(fin.img)) =>
        /\ ~fout.scan.fault
        /\ SeqRange(fout.scan.occ) = MatchingOffsets(fin.sig, fin.img)
        /\ IsAscending(fout.scan.occ)

CaveDone == fin.op = "find_code_cave" /\ fout.done

HasText(sections) == \E k \in 1..Len(sections) : sections[k].name = DotText

TextEnd(sections) ==
    LET k == CHOOSE x \in 1..Len(sections) : sections[x].name = DotText
    IN sections[k].va + sections[k].vsize

\* The number of zero bytes found from offset a on, before the first
\* non-zero byte (or the end of the modelled memory).
RECURSIVE ZeroRun(_, _)
ZeroRun(bytes, a) ==
    IF a >= Len(bytes) \/ bytes[a + 1] # 0 THEN 0 ELSE 1 + ZeroRun(bytes, a + 1)

\* C2: find_code_cave returns a pointer (the end of .text) exactly when a
\* .text section exists and the size bytes from its end are all zero; a run
\* of exactly N zero bytes followed by a non-zero byte satisfies a request
\* of size s iff s <= N.
C2_CaveSafe ==
    CaveDone =>
        /\ fout.cave.has =>
              /\ HasText(fin.sections)
              /\ fout.cave.val = TextEnd(fin.sections)
              /\ \A i \in 0..(fin.size - 1) : fin.img[fout.cave.val + i + 1] = 0
        /\ ~HasText(fin.sections) => ~fout.cave.has
        /\ HasText(fin.sections) =>
              (fout.cave.has <=> fin.size <= ZeroRun(fin.img, TextEnd(fin.sections)))

\* A request of exactly the length of the zero run is granted, one byte more
\* is refused.
C2_Witness ==
    /\ CaveDone
    /\ HasText(fin.sections)
    /\ fin.size >= 2
    /\ fin.size = ZeroRun(fin.img, TextEnd(fin.sections))
    /\ fout.cave.has

(***************************************************************************)
(* Claims about the hook batch, the scroll patch and late hooking.         *)
(***************************************************************************)
Unredirected(s) == s \notin hk.active /\ hk.optr[s] = "raw"

\* C3: when apply_hooks returns false no record of the start-up batch (base
\* hooks, plus theme hooks when the theme is enabled) is active, every
\* function of the batch still runs its original code; when it returns true
\* every non-null record of the batch is active.
C3_BatchAtomic ==
    /\ hist.applied = "false" => \A s \in Batch(cm.theme_enabled) : Unredirected(s)
    /\ hist.applied = "true" =>
          \A s \in Batch(cm.theme_enabled) : hk.optr[s] # "null" => s \in hk.active

\* apply_hooks gave up in the theme loop, after every base record and some
\* theme record had been attached.
C3_Witness ==
    /\ hist.applied = "false"
    /\ cm.theme_enabled
    /\ BaseHooks \subseteq hk.staged
    /\ hk.staged \cap ThemeHooks # {}
    /\ \A s \in Batch(TRUE) : Unredirected(s)

ThunkInPlace ==
    SubSeq(mem, pp.cave + 1, pp.cave + Len(shellcode_multiply(arch))) = shellcode_multiply(arch)

\* C4: when the matches of the two signature variants together are not
\* exactly two, the patch returns failure, no byte of a call site (nor any
\* other byte outside the cave) is modified and the thunk written into the
\* cave stays.
C4_CountMismatchFails ==
    (pp.scanned /\ Len(pp.merged) # 2) =>
        /\ pp.pc = "idle"
        /\ pp.ret = "false"
        /\ mem = store(mem0, pp.cave, shellcode_multiply(arch))
        /\ ThunkInPlace

\* Three call sites were found after the thunk had been written.
C4_Witness ==
    /\ pp.scanned
    /\ Len(pp.merged) = 3
    /\ pp.wrote
    /\ pp.ret = "false"
    /\ mem # mem0

\* The bytes of the multiply instruction inside match k.
InstrRange(k) ==
    range_of(pp.merged[k] + InstrOffset(arch, pp.from[k]), InstrLen(arch))

\* C5: in every successful patch each of the two sites is overwritten from
\* the first byte of the multiply instruction inside its match, for the
\* length of that instruction, whichever variant produced the match, and no
\* byte outside the replaced instructions (and the cave) is changed.
C5_SitesExact ==
    pp.ret = "true" =>
        /\ pp.site1 = pp.merged[1] + InstrOffset(arch, pp.from[1])
        /\ pp.site2 = pp.merged[2] + InstrOffset(arch, pp.from[2])
        /\ Len(shellcode_call(arch)) = InstrLen(arch)
        /\ \A k \in 1..Len(mem) :
              (k - 1) \notin (InstrRange(1) \cup InstrRange(2) \cup CaveRange)
                  => mem[k] = mem0[k]

\* A call site is redirected only after the thunk was written into the cave
\* and the cave was switched back to PAGE_EXECUTE_READ.
RedirectAfterThunk == pp.redirected > 0 => (pp.wrote /\ pp.executable)

\* C6: a call site is redirected only after the complete thunk, with the
\* address stored in it, was written into the cave and the cave was switched
\* back to executable protection; and every call that wrote the thunk has
\* invalidated the instruction cache when it returns.
C6_ThunkReadyAndFlushed ==
    /\ RedirectAfterThunk
    /\ (pp.pc = "idle" /\ pp.wrote) => pp.flushed

\* C7: the scroll patch is attempted only inside the creation handler of the
\* primary window, after the host's window procedure has returned from that
\* creation message; nothing is patched before (DLL load, bring-up, class
\* registration).
C7_PatchAfterOrig ==
    /\ ~pp.early
    /\ pp.pc # "idle" => (pc = "create_patch" /\ hist.orig_returned)
    /\ pp.calls <= hist.orig_count
    /\ hist.creates = 0 => (pp.calls = 0 /\ mem = mem0 /\ rw = {})

\* The patch is running, after the original procedure returned, and has
\* written the thunk.
C7_Witness ==
    /\ pp.calls >= 1
    /\ pp.wrote
    /\ pp.pc = "scan"
    /\ hist.orig_returned
    /\ hist.mutex_calls >= 1
    /\ hist.main_registered

\* C8: once a late-bound slot is installed, no later trigger overwrites its
\* stored original pointer or attaches its hook again.
C8_NoReinstall ==
    [][\A s \in LateSlots :
          s \in hk.active => (hk'.optr[s] = hk.optr[s] /\ hk'.attaches[s] = hk.attaches[s])]_vars

\* C9: a child window procedure or audio slot whose installation failed is
\* left unresolved (null), so that the guard of its trigger lets the next
\* call try again.
C9_FailedSlotUnresolved ==
    \A s \in LateSlots \ {"WndProc_main"} : hk.optr[s] # "null" => s \in hk.active

InitFailed == hist.init_fail \in {"config", "theme"}

NoBatchHook == (BaseHooks \cup ThemeHooks) \cap hk.active = {}

AllMutexCalls == hist.mutex_calls + hist.nested_calls

Width(rect) == rect.right - rect.left

Height(rect) == rect.bottom - rect.top

\* The last message was WM_SIZING and this is what its handling left: the
\* rectangle inside [logical / 2, logical] on both axes, left and top as they
\* came, the recorded current size the size of the rectangle.
SizingConstrained ==
    /\ wm.default_cx \div 2 <= Width(ev.rout) /\ Width(ev.rout) <= wm.default_cx
    /\ wm.default_cy \div 2 <= Height(ev.rout) /\ Height(ev.rout) <= wm.default_cy
    /\ ev.rout.left = ev.rin.left
    /\ ev.rout.top = ev.rin.top
    /\ wm.cur_cx = Width(ev.rout)
    /\ wm.cur_cy = Height(ev.rout)

\* C12 as stated: after every WM_SIZING of the primary window, whichever edge
\* or corner is dragged, the resulting size is inside [logical / 2, logical]
\* on both axes, left and top are unchanged and the recorded current size is
\* the size written back.
C12_EveryEdgeConstrained == ev.msg = "WM_SIZING" => SizingConstrained

\* C12: a WM_SIZING of the primary window for the bottom right corner leaves
\* a size inside [logical / 2, logical] on both axes, left and top unchanged
\* and the recorded current size equal to the size written back; a WM_SIZING
\* for any other edge or corner returns 0 and changes neither the rectangle
\* nor window_manager.
C12_CornerConstrained ==
    [][ev'.msg = "WM_SIZING" =>
          IF ev'.wparam = "WMSZ_BOTTOMRIGHT"
          THEN SizingConstrained' /\ ev'.ret = "1"
          ELSE ev'.rout = ev'.rin /\ ev'.ret = "0" /\ wm' = wm]_vars

\* The bottom right corner dragged beyond the logical width: the width is
\* brought back to the logical width.
C12_Witness ==
    /\ ev.msg = "WM_SIZING"
    /\ ev.wparam = "WMSZ_BOTTOMRIGHT"
    /\ Width(ev.rin) > wm.default_cx
    /\ Width(ev.rout) = wm.default_cx
    /\ wm.cur_cx = wm.default_cx
    /\ ev.rin.left > 0

\* a / b rounded to the nearest integer, halves upwards (a >= 0, b > 0).
RoundDiv(a, b) == (2 * a + b) \div (2 * b)

\* The last message was a WM_SIZING of the bottom right corner that asked for
\* a width inside [logical_w / 2, logical_w].
SizingInRange ==
    /\ ev.msg = "WM_SIZING"
    /\ ev.wparam = "WMSZ_BOTTOMRIGHT"
    /\ wm.default_cx \div 2 <= Width(ev.rin)
    /\ Width(ev.rin) <= wm.default_cx

\* round(w * logical_h / logical_w) for the width that was asked for.
DerivedHeight == RoundDiv(Width(ev.rin) * wm.default_cy, wm.default_cx)

HeightInRange ==
    /\ wm.default_cy \div 2 <= Height(ev.rout)
    /\ Height(ev.rout) <= wm.default_cy

\* C13 as stated: for a requested width inside [logical_w / 2, logical_w] the
\* height the sizing handler produces is round(w * logical_h / logical_w) and
\* lies inside [logical_h / 2, logical_h]: the final clamp changes nothing.
C13_ClampNeverActs ==
    SizingInRange => Height(ev.rout) = DerivedHeight /\ HeightInRange

\* C13: for a requested width inside [logical_w / 2, logical_w] the height
\* the sizing handler produces is round(w * logical_h / logical_w) brought
\* into [logical_h / 2, logical_h]; it is round(w * logical_h / logical_w)
\* itself whenever logical_w is even or logical_h <= logical_w.
C13_HeightDerived ==
    SizingInRange =>
        /\ HeightInRange
        /\ Height(ev.rout) = Max(wm.default_cy \div 2, Min(wm.default_cy, DerivedHeight))
        /\ (wm.default_cx % 2 = 0 \/ wm.default_cy <= wm.default_cx)
              => Height(ev.rout) = DerivedHeight

\* A width whose derived height is not an integer and is rounded upwards.
C13_Witness ==
    /\ SizingInRange
    /\ wm.default_cx % 2 = 0
    /\ (Width(ev.rin) * wm.default_cy) % wm.default_cx # 0
    /\ Height(ev.rout) * wm.default_cx > Width(ev.rin) * wm.default_cy
    /\ Height(ev.rout) = DerivedHeight

(***************************************************************************)
(* C14  hk_WndProc_main, WM_CREATE: the logical and the current size.      *)
(***************************************************************************)
\* The creation message of the primary window has been handled: the
\* original returned and what follows it on the restore path is done.
CreateHandled == ev.msg = "WM_CREATE" /\ ev.orig

\* The restore policy allows it (the option is absent or true) and a
\* persisted pair was read.
PersistedSizeApplies == ev.opt # "false" /\ ev.reg.has

\* C14: after the creation message of the primary window the logical size is
\* (cx, cy) of the creation parameters; the current size is the persisted
\* pair, and the window has that size, when the policy allows it and the pair
\* was read, and the logical size in every other case.
C14_CreateSizes ==
    CreateHandled =>
        /\ wm.default_cx = ev.size.w
        /\ wm.default_cy = ev.size.h
        /\ IF PersistedSizeApplies
           THEN /\ wm.cur_cx = ev.reg.w /\ wm.cur_cy = ev.reg.h
                /\ wnd.size = Sz(ev.reg.w, ev.reg.h)
           ELSE /\ wm.cur_cx = ev.size.w /\ wm.cur_cy = ev.size.h
                /\ wnd.size = ev.size

\* No restore option in the configuration and a persisted pair that is not
\* the logical size: the window has the persisted size.
C14_Witness ==
    /\ CreateHandled
    /\ ev.opt = "absent"
    /\ ev.reg.has
    /\ Sz(ev.reg.w, ev.reg.h) # ev.size
    /\ wm.cur_cx = ev.reg.w
    /\ wnd.size = Sz(ev.reg.w, ev.reg.h)

(***************************************************************************)
(* C15  hk_BeginPaint, hk_GetDC, hk_ReleaseDC.                             *)
(***************************************************************************)
\* C15: for a tracked window BeginPaint and GetDC return the off-screen
\* device context of window_manager and ReleaseDC returns success without a
\* call of the original ReleaseDC; for a window that is not tracked all three
\* return what the original returns.
C15_DcSubstituted ==
    ev.msg \in {"BeginPaint", "GetDC", "ReleaseDC"} =>
        IF ev.hwnd \in wm.tracked
        THEN /\ ev.msg \in {"BeginPaint", "GetDC"} => ev.ret = "mem_dc"
             /\ ev.msg = "ReleaseDC" => ev.ret = "1" /\ ~ev.orig
        ELSE ev.ret = "orig" /\ ev.orig

\* ReleaseDC for the tracked primary window.
C15_Witness ==
    /\ ev.msg = "ReleaseDC"
    /\ ev.hwnd = "main"
    /\ "main" \in wm.tracked
    /\ ev.ret = "1"
    /\ ~ev.orig

(***************************************************************************)
(* C16  The coordinates the primary window's original procedure and the    *)
(* system receive.                                                         *)
(***************************************************************************)
\* The popup menu or edit dialog is one whose position is to be converted.
PlacedByMain ==
    /\ ev.hwnd = "main"
    /\ get_hwnd_main(wm) = "main"
    /\ \/ ev.msg = "TrackPopupMenu" /\ ev.wparam # "tray"
       \/ ev.msg = "DialogBoxIndirectParamA" /\ ev.wparam = "edit"

\* C16 as stated: every mouse button, mouse move and mouse wheel message of
\* the primary window reaches the original procedure with its position
\* converted to logical coordinates (the wheel: screen to client, convert,
\* client to screen), and the position of a popup menu (not the tray menu) or
\* an edit dialog of the primary window reaches the system converted back to
\* device coordinates.
C16_LogicalForwarded ==
    /\ (ev.hwnd = "main" /\ ev.msg \in MouseMsgs) =>
          ev.pout = IF ev.msg = "WM_MOUSEWHEEL"
                    THEN ClientToScreen(ev.org, scale_coords(wm, ScreenToClient(ev.org, ev.pin)))
                    ELSE scale_coords(wm, ev.pin)
    /\ PlacedByMain =>
          ev.pout = ClientToScreen(ev.org,
                                   scale_coords_inverse(wm, ScreenToClient(ev.org, ev.pin)))

(***************************************************************************)
(* C17  scale_coords followed by scale_coords_inverse.                     *)
(***************************************************************************)
Dist(a, b) == IF a >= b THEN a - b ELSE b - a

\* The primary window is tracked and its current size is inside
\* [logical / 2, logical] on both axes.
CurrentInRange ==
    /\ get_hwnd_main(wm) = "main"
    /\ wm.default_cx \div 2 <= wm.cur_cx /\ wm.cur_cx <= wm.default_cx
    /\ wm.default_cy \div 2 <= wm.cur_cy /\ wm.cur_cy <= wm.default_cy

RoundTrip(p) == scale_coords_inverse(wm, scale_coords(wm, p))

\* C17: while the current size is inside [logical / 2, logical], every device
\* point inside the current bounds comes back from scale_coords followed by
\* scale_coords_inverse at most one unit away on each axis.
C17_RoundTrip ==
    CurrentInRange =>
        \A x \in 0..wm.cur_cx, y \in 0..wm.cur_cy :
            /\ Dist(RoundTrip(Pt(x, y)).x, x) <= 1
            /\ Dist(RoundTrip(Pt(x, y)).y, y) <= 1

\* A mouse message of a window that is smaller than its logical size, at a
\* point inside it that conversion moves and the way back returns.
C17_Witness ==
    /\ CurrentInRange
    /\ wm.cur_cx < wm.default_cx
    /\ ev.msg = "WM_LBUTTONDOWN"
    /\ ev.pin.x <= wm.cur_cx /\ ev.pin.y <= wm.cur_cy
    /\ ev.pout = scale_coords(wm, ev.pin)
    /\ ev.pout # ev.pin
    /\ Dist(scale_coords_inverse(wm, ev.pout).x, ev.pin.x) <= 1
    /\ Dist(scale_coords_inverse(wm, ev.pout).y, ev.pin.y) <= 1

(***************************************************************************)
(* C18  hk_WndProc_main, WM_NCHITTEST.                                     *)
(***************************************************************************)
\* The point of the hit test in client coordinates of the device.
HitClient == ScreenToClient(ev.org, ev.pin)

\* x > client_right - 10 and y > client_bottom - 10, in device coordinates.
HitInCorner == HitClient.x > wnd.size.w - 10 /\ HitClient.y > wnd.size.h - 10

\* htclient_x1 < x < htclient_x2 and y < 40, in logical coordinates.
HitInCaption ==
    LET lp == scale_coords(wm, HitClient)
    IN ev.x1 < lp.x /\ lp.x < ev.x2 /\ lp.y < 40

\* C18: the hit test of the primary window returns the resize-handle code
\* exactly for the points with device client x > right - 10 and y > bottom -
\* 10, whatever the scale; for every other point the caption code iff the
\* point in logical coordinates has htclient_x1 < x < htclient_x2 and y < 40,
\* and the ordinary-content code otherwise.
C18_HitTest ==
    ev.msg = "WM_NCHITTEST" =>
        ev.ret = IF HitInCorner THEN "HTBOTTOMRIGHT"
                 ELSE IF HitInCaption THEN "HTCAPTION"
                 ELSE "HTCLIENT"

\* In a window at half its logical size: a point of the caption strip that
\* would be inside the corner if the corner were taken in logical coordinates.
C18_Witness ==
    /\ ev.msg = "WM_NCHITTEST"
    /\ wm.cur_cx < wm.default_cx
    /\ ev.ret = "HTCAPTION"
    /\ ev.pout # HitClient
    /\ ev.pout.x > wnd.size.w - 10
    /\ ev.pout.y > wnd.size.h - 10

(***************************************************************************)
(* C19  hk_GetClientRect.                                                  *)
(***************************************************************************)
\* C19: GetClientRect for an app-volume window or a compressor / denoiser
\* window whose parent is the primary window reports (0, 0, 100, 386) and
\* (0, 0, 153, 413), whatever the window's real rectangle; for every other
\* window it reports what the original reports.
C19_ClientRect ==
    ev.msg = "GetClientRect" =>
        IF ev.wparam = "main" /\ ev.hwnd = "wdb"
        THEN ev.rout = Rc(0, 0, 100, 386) /\ ev.ret = "TRUE" /\ ~ev.orig
        ELSE IF ev.wparam = "main" /\ ev.hwnd = "compdenoise"
        THEN ev.rout = Rc(0, 0, 153, 413) /\ ev.ret = "TRUE" /\ ~ev.orig
        ELSE ev.rout = ev.rin /\ ev.ret = "orig" /\ ev.orig

\* An app-volume window of the primary window that is shown at half its size.
C19_Witness ==
    /\ ev.msg = "GetClientRect"
    /\ ev.hwnd = "wdb"
    /\ ev.wparam = "main"
    /\ ev.rin = Rc(0, 0, 50, 193)
    /\ ev.rout = Rc(0, 0, 100, 386)

(***************************************************************************)
(* C20  What a resize of the primary window brings about.                  *)
(***************************************************************************)
\* The last message resized the primary window: WM_SIZING, WM_SIZE, or a
\* WM_CREATE that restored the persisted size.
Resized ==
    \/ ev.msg \in {"WM_SIZING", "WM_SIZE"}
    \/ CreateHandled /\ PersistedSizeApplies

\* The size the last message asked for.
ResizedTo ==
    IF ev.msg = "WM_SIZING" THEN Sz(Width(ev.rout), Height(ev.rout))
    ELSE IF ev.msg = "WM_SIZE" THEN ev.size
    ELSE Sz(ev.reg.w, ev.reg.h)

CurrentIs(size) == wm.cur_cx = size.w /\ wm.cur_cy = size.h

\* C20 as stated: on every resize of the primary window, by WM_SIZING, by
\* WM_SIZE or by the restore at creation, the current size is updated, every
\* secondary window is placed for it and a redraw is triggered before the
\* handler returns.
C20_EveryResizeRedraws ==
    Resized =>
        /\ CurrentIs(ResizedTo)
        /\ ev.placed
        /\ wm.placed = ResizedTo
        /\ ev.renders >= 1

\* C20: a WM_SIZING of the bottom right corner updates the current size,
\* places every secondary window for it and triggers a redraw before it
\* returns; a WM_SIZE, and the restore at creation, update the current size
\* and the size of the render target, but place no secondary window and
\* trigger no redraw (the restore passes SWP_NOREDRAW).
C20_ResizeEffects ==
    /\ (ev.msg = "WM_SIZING" /\ ev.wparam = "WMSZ_BOTTOMRIGHT") =>
          /\ CurrentIs(ResizedTo)
          /\ ev.placed
          /\ wm.placed = ResizedTo
          /\ ev.renders >= 1
    /\ (ev.msg = "WM_SIZE" \/ (CreateHandled /\ PersistedSizeApplies)) =>
          /\ CurrentIs(ResizedTo)
          /\ wm.d2d = ResizedTo
          /\ ~ev.placed
          /\ ev.renders = 0
    /\ (CreateHandled /\ PersistedSizeApplies) => wnd.noredraw

\* The bottom right corner dragged to a smaller size after a WM_SIZE: the
\* secondary windows are placed for the new size, the render target still
\* has the old one.
C20_Witness ==
    /\ ev.msg = "WM_SIZING"
    /\ ev.wparam = "WMSZ_BOTTOMRIGHT"
    /\ wm.cur_cx < wm.default_cx
    /\ wm.placed = Sz(wm.cur_cx, wm.cur_cy)
    /\ ev.renders = 1
    /\ wm.d2d # wm.placed

(***************************************************************************)
(* C21: the blacklist of audio sessions.                                   *)
(***************************************************************************)
ProcessIdAsked == call.fn = "GetProcessId"

\* The image name of the session's process is on the blacklist.
Blacklisted ==
    /\ call.name.has
    /\ call.list.has
    /\ \E k \in 1..Len(call.list.val) : lstrcmpiW_equal(call.list.val[k], call.name.val)

ReportsNoProcess == call.out = 0 /\ call.ret # "S_OK"

ReportsOriginal == call.out = call.oout /\ call.ret = call.oret

\* C21 as stated: whenever the original query succeeds, a session whose image
\* name equals a blacklist entry, compared without regard to case, is reported
\* as no process (process id 0, a result other than S_OK), and any other
\* session with the original's process id and result; a failure of the
\* original query is returned unchanged.
C21_BlacklistHides ==
    ProcessIdAsked =>
        IF ~SUCCEEDED(call.oret) THEN ReportsOriginal
        ELSE IF Blacklisted THEN ReportsNoProcess
        ELSE ReportsOriginal

(***************************************************************************)
(* C22: the size is saved at the destruction of the primary window only.   *)
(***************************************************************************)
DestroyHandled(hwnd) == ev.msg = "WM_DESTROY" /\ ev.hwnd = hwnd

\* The client size the handler read is inside (0, logical size].
ClientSizeStable ==
    /\ 0 < ev.rin.right /\ ev.rin.right <= wm.default_cx
    /\ 0 < ev.rin.bottom /\ ev.rin.bottom <= wm.default_cy

SavedAtMainDestroyOnly == ev.saved => DestroyHandled("main") /\ ClientSizeStable

DestroyedIsUntracked == ev.msg = "WM_DESTROY" => ~is_in_map(wm, ev.hwnd)

\* A step that changes the registry handles WM_DESTROY of the primary window,
\* whose client size was inside (0, logical size] before the step.
RegistryWrittenAtMainDestroy ==
    registry' # registry =>
        /\ ev'.msg = "WM_DESTROY" /\ ev'.hwnd = "main" /\ ev'.saved
        /\ 0 < wnd.size.w /\ wnd.size.w <= wm.default_cx
        /\ 0 < wnd.size.h /\ wnd.size.h <= wm.default_cy

\* C22: reg_save_wnd_size is called, and the registry changes, only while
\* WM_DESTROY of the primary window is handled and only when its client size
\* satisfies 0 < width <= logical width and 0 < height <= logical height;
\* WM_DESTROY of a secondary window saves nothing; after WM_DESTROY has been
\* handled window_manager no longer tracks the window.
C22_SaveAtMainDestroy ==
    /\ [](SavedAtMainDestroyOnly /\ DestroyedIsUntracked)
    /\ [][RegistryWrittenAtMainDestroy]_vars

C22_Witness ==
    /\ DestroyHandled("main")
    /\ ev.saved
    /\ reg_get_wnd_size(registry, RunningFlavor) = RegPair(ev.rin.right, ev.rin.bottom)
    /\ ChildWindows \cap wm.tracked # {}

(***************************************************************************)
(* C23: the saved size is read back, for each flavor on its own.           *)
(***************************************************************************)
SaveCompleted(c) == c.fn = "reg_save_wnd_size" /\ c.ret = "done"

\* A reg_get_wnd_size that follows a completed save under the same flavor
\* returns true with the pair saved.
ReadsBackSaved ==
    (SaveCompleted(call) /\ call'.fn = "reg_get_wnd_size" /\ call'.args[1] = call.args[1]) =>
        call'.out = RegPair(call.args[2], call.args[3])

\* A save under one flavor leaves what every other flavor reads as it was.
OtherFlavorsKeep ==
    call'.fn = "reg_save_wnd_size" =>
        \A g \in FlavorIds :
            (call'.args[1].has /\ g # call'.args[1].val) =>
                reg_get_wnd_size(registry', SomeFlavor(g)) = reg_get_wnd_size(registry, SomeFlavor(g))

\* C23: for every flavor F and pair (w, h), after reg_save_wnd_size(w, h)
\* completed under F, reg_get_wnd_size under F returns true with (w, h); and
\* a save under one flavor never changes the pair read under another one.
C23_SavedSizeReadBack == [][ReadsBackSaved /\ OtherFlavorsKeep]_vars

C23_Witness ==
    /\ call.fn = "reg_get_wnd_size"
    /\ call.args[1] = SomeFlavor("FLAVOR_POTATO")
    /\ call.out = RegPair(1, 2)
    /\ reg_get_wnd_size(registry, SomeFlavor("FLAVOR_BANANA")) = RegPair(2, 1)

(***************************************************************************)
(* C24: a call that is not the hook's own case goes to the original as it  *)
(* came.                                                                   *)
(***************************************************************************)
\* The last call recorded in `call` is not the case its hook changes.
CallUnmatched ==
    \/ call.fn = "SetTimer" /\ call.args[2] # 12346
    \/ call.fn = "OpenProcess"
          /\ call.args[1] # "SYNCHRONIZE|PROCESS_VM_READ|PROCESS_QUERY_INFORMATION"
    \/ call.fn = "Rectangle"
          /\ \A f \in {NoFlavor} \cup {SomeFlavor(g) : g \in FlavorIds} :
                ~is_masked(f, call.args[1], call.args[2])
    \/ call.fn = "SetWindowPos" /\ call.args[1] # "main"
    \/ call.fn = "CreateWindowExA" /\ call.args[1]

\* The original was called once, with the caller's arguments, and its
\* result returned.
CallPassed == call.fwd = <<call.args>> /\ call.ret = call.oret

\* The last call recorded in `ev` is not the case its hook changes.
EventUnmatched ==
    \/ ev.msg = "TrackPopupMenu" /\ ev.hwnd # "main"
    \/ ev.msg = "DialogBoxIndirectParamA" /\ ev.wparam = "null"
    \/ ev.msg = "GetClientRect" /\ ev.wparam # "main"

EventPassed == ev.orig /\ ev.ret = "orig" /\ ev.pout = ev.pin /\ ev.rout = ev.rin

\* C24: for SetTimer, OpenProcess, Rectangle, SetWindowPos, TrackPopupMenu,
\* DialogBoxIndirectParamA, CreateWindowExA and GetClientRect, a call that is
\* not the hook's own case (another timer id, another access mask, a
\* rectangle that is not masked, a window other than the primary window, a
\* null creation or init parameter, a parent other than the primary window)
\* reaches the original once with the caller's arguments, and the original's
\* result is returned.
C24_UnmatchedPassThrough ==
    /\ CallUnmatched => CallPassed
    /\ EventUnmatched => EventPassed

C24_Witness ==
    /\ call.fn = "SetTimer" /\ CallUnmatched /\ call.oret = "failed"
    /\ ev.msg = "GetClientRect" /\ EventUnmatched /\ ev.hwnd = "wdb"

(***************************************************************************)
(* C25: a failure of the hook's own audio calls and the host's call.       *)
(***************************************************************************)
\* hk_CoCreateInstance set out to resolve the chain and could not get the
\* default endpoint or the session manager.
ChainResolutionFailed ==
    /\ call.fn = "CoCreateInstance"
    /\ call.fwd # << <<call.args[1], "ppv">> >>
    /\ call.oret = "S_OK"
    /\ call.env \in {"endpoint_fails", "activate_fails"}

\* C25 as stated: when the hook cannot get the default audio endpoint or the
\* session manager, the host's call still receives the result and the object
\* the original CoCreateInstance produces for the host's own arguments.
C25_FailureInvisible ==
    ChainResolutionFailed => call.ret = call.oret /\ call.out = call.oout

(***************************************************************************)
(* C26: a scan without a match.                                            *)
(***************************************************************************)
\* find_signatures returned for a signature that matches at no offset of the
\* image, or without the module's base and size.
ScannedWithoutMatch ==
    /\ fin.op = "find_signatures"
    /\ fout.done
    /\ (~fin.resolved \/ MatchingOffsets(fin.sig, fin.img) = {})

\* C26 as stated: whenever no offset matches, also when the signature is
\* longer than the image or the module cannot be resolved, find_signatures
\* returns the empty sequence and reads no byte at or beyond the end of the
\* image.
C26_NoMatchEmpty ==
    ScannedWithoutMatch =>
        /\ fout.scan.occ = <<>>
        /\ ~fout.scan.fault
        /\ ~fout.scan.oob

(***************************************************************************)
(* C27: between two scroll-patch attempts, once the thunk is in the cave,  *)
(* every later attempt fails at the cave request, and neither the thunk    *)
(* nor a call site is written again.                                       *)
(***************************************************************************)
BetweenAttempts == pp.pc = "idle"

ThunkInCave ==
    LET ptr_text_end == text_end_from(sects, 1, None)
        n == Len(shellcode_multiply(arch))
    IN /\ ptr_text_end.has
       /\ SubSeq(mem, ptr_text_end.val + 1, ptr_text_end.val + n) = shellcode_multiply(arch)

LaterAttemptStopsAtCave ==
    /\ mem' = mem
    /\ pp'.pc = "idle"
    /\ pp'.calls # pp.calls => pp'.ret = "false" /\ ~pp'.wrote /\ pp'.redirected = 0

\* C27: an attempt that starts with the thunk already in the cave returns
\* false from the cave request and leaves every byte of the image alone.
C27_CaveWrittenOnce == [][(BetweenAttempts /\ ThunkInCave) => LaterAttemptStopsAtCave]_vars

C27_Witness ==
    /\ BetweenAttempts /\ ThunkInCave
    /\ pp.calls = MaxAttempts /\ pp.ret = "false"
    /\ mem # mem0

(***************************************************************************)
(* C28: the rectangle a secondary window is created with is multiplied,    *)
(* value by value, by current size / logical size of the primary window    *)
(* and rounded to the nearest integer.                                     *)
(***************************************************************************)
ChildCreated(hwnd) == ev.msg = "WM_CREATE" /\ ev.hwnd = hwnd

\* r is an integer nearest to v * num / den.
NearestTo(r, v, num, den) ==
    LET d == r * den - v * num
    IN 2 * (IF d < 0 THEN 0 - d ELSE d) <= den

ScaledValueByValue(to, from) ==
    /\ NearestTo(to.x, from.x, scale_num(wm), scale_den(wm))
    /\ NearestTo(to.y, from.y, scale_num(wm), scale_den(wm))
    /\ NearestTo(to.cx, from.cx, scale_num(wm), scale_den(wm))
    /\ NearestTo(to.cy, from.cy, scale_num(wm), scale_den(wm))

\* Logical size 1920x1080, current size 1280x720, rectangle (800, 400, 300, 200).
ScenarioCreated(hwnd) ==
    /\ ChildCreated(hwnd)
    /\ wm.default_cx = 1920 /\ wm.default_cy = 1080
    /\ wm.cur_cx = 1280 /\ wm.cur_cy = 720
    /\ ev.cs = Xywh(800, 400, 300, 200)

DeliveredDirectly(slot) == call.fn = "o_WndProc" /\ call.args[1] = window_of(slot)

\* This step hands a message of the slot's window to the host's procedure.
DeliversDirectly(slot) ==
    /\ call' # call
    /\ call'.fn = "o_WndProc"
    /\ call'.args[1] = window_of(slot)

\* This step detours the procedure of a secondary window.
InstallsLate(slot) ==
    /\ slot # "WndProc_main"
    /\ ~enters_replacement(hk, slot)
    /\ enters_replacement(hk', slot)

CreationEntersReplacement(slot) ==
    /\ ev'.msg = "WM_CREATE"
    /\ ev'.hwnd = window_of(slot)
    /\ is_in_map(wm', window_of(slot))
    /\ call' = call

BytesAt(bytes, off, n) == SubSeq(bytes, off + 1, off + n)

\* The offsets of the code cave.
CaveOffsets == range_of(text_end_from(sects, 1, None).val, Len(shellcode_multiply(arch)))

\* The bytes of a call site are the loaded ones; a byte of the site that lies
\* in the code cave belongs to the thunk.
OriginalAt(bytes, site) ==
    \A i \in range_of(site, Len(shellcode_call(arch))) \ CaveOffsets :
        bytes[i + 1] = mem0[i + 1]

HoldsOriginal(site) == OriginalAt(mem, site)

HoldsCall(site) ==
    BytesAt(mem, site, Len(shellcode_call(arch)))
        = call_bytes(arch, text_end_from(sects, 1, None).val, site)

AttemptOver == pp.pc = "idle" /\ pp.calls > 0

\* The offsets outside the code cave whose byte is not the loaded one.
ChangedOutsideCave == {i \in 0..(Len(mem) - 1) : mem[i + 1] # mem0[i + 1]} \ CaveOffsets

\* The offsets that hold the call into the code cave.
RedirectedSites ==
    {site \in 0..(Len(mem) - Len(shellcode_call(arch))) :
        mem[site + 1] = shellcode_call(arch)[1] /\ HoldsCall(site)}

\* The image is as it was loaded, or no byte outside the cave is changed and
\* no site calls into the cave, or two sites call into the cave and nothing
\* else is changed.
BothOrNeither ==
    \/ mem = mem0
    \/ ChangedOutsideCave = {} /\ RedirectedSites = {}
    \/ /\ Cardinality(RedirectedSites) = 2
       /\ ChangedOutsideCave \subseteq
             UNION {range_of(site, Len(shellcode_call(arch))) : site \in RedirectedSites}

ProtectionSteps == {"protect_cave", "reprotect_cave", "unprotect_sites", "reprotect_sites"}

\* A step that leaves a VirtualProtect call for the end of the attempt.
ProtectionFailed == pp.pc \in ProtectionSteps /\ pp'.pc = "idle"

StopsAtOnce == mem' = mem /\ pp'.ret = "false" /\ ~pp'.flushed

SitesUntouched ==
    /\ pp'.redirected = 0
    /\ OriginalAt(mem', pp.site1)
    /\ OriginalAt(mem', pp.site2)

\* C30: after a failed VirtualProtect no byte is written and the attempt
\* returns false; when it was a call site that could not be made writable,
\* both sites hold their original bytes; and whenever an attempt is over,
\* both sites are redirected or both hold their original bytes.
C30_NoPartialPatch ==
    /\ [](AttemptOver => BothOrNeither)
    /\ [][ProtectionFailed => StopsAtOnce]_vars
    /\ [][(ProtectionFailed /\ pp.pc = "unprotect_sites") => SitesUntouched]_vars

\* The second site could not be made writable after the first one was.
C30_Witness ==
    /\ AttemptOver
    /\ pp.ret = "false"
    /\ pp.scanned /\ match_count_ok(pp.merged)
    /\ pp.redirected = 0
    /\ rw = range_of(pp.site1, Len(shellcode_call(arch)))
    /\ HoldsOriginal(pp.site1) /\ HoldsOriginal(pp.site2)
(***************************************************************************)
(* C31: the audio session chain is assembled in order, each slot during a  *)
(* call of the hook before it, and a complete chain only forwards.         *)
(***************************************************************************)
Installed(slot) == slot \in hk.active

InstalledNow(slot) == slot \notin hk.active /\ slot \in hk'.active

ChainInOrder ==
    /\ Installed("GetSession") => Installed("GetSessionEnumerator")
    /\ Installed("GetProcessId") => Installed("GetSession")
    /\ Installed("IsSystemSoundsSession") => Installed("GetSession")

InstalledDuringCallBefore ==
    /\ InstalledNow("GetSessionEnumerator") =>
         call'.fn = "CoCreateInstance" /\ call'.args = <<TRUE>>
    /\ InstalledNow("GetSession") =>
         call'.fn = "GetSessionEnumerator" /\ Installed("GetSessionEnumerator")
    /\ InstalledNow("GetProcessId") \/ InstalledNow("IsSystemSoundsSession") =>
         call'.fn = "GetSession" /\ Installed("GetSession")

ChainComplete ==
    /\ Installed("GetSessionEnumerator") /\ Installed("GetSession")
    /\ Installed("GetProcessId") /\ Installed("IsSystemSoundsSession")

ChainCalls == {"CoCreateInstance", "GetSessionEnumerator", "GetSession"}

OnlyForwards ==
    /\ hk' = hk
    /\ ps' = ps
    /\ Len(call'.fwd) = 1
    /\ call'.ret = call'.oret
    /\ call'.out = call'.oout

\* C31: a slot of the chain is installed only during a call of the hook
\* before it, never ahead of an earlier slot, and once the four slots are
\* installed every call of the three hooks is one call of its original.
C31_ChainAssemblesInOrder ==
    /\ []ChainInOrder
    /\ [][InstalledDuringCallBefore]_vars
    /\ [][(ChainComplete /\ call' # call /\ call'.fn \in ChainCalls) => OnlyForwards]_vars

C31_Witness ==
    /\ ChainComplete
    /\ call.fn = "GetSessionEnumerator"
    /\ Len(call.fwd) = 1

(***************************************************************************)
(* C32: when hk_GetSessionEnumerator or hk_GetSession cannot acquire its   *)
(* object, no dispatch table is read, nothing is installed and the call is *)
(* forwarded.                                                              *)
(***************************************************************************)
\* The last call acquired an object of its own and the acquisition failed.
AcquireFailed ==
    /\ call.fn \in {"GetSessionEnumerator", "GetSession"}
    /\ call.fwd[1] \in {<<"session_enumerator">>, <<"session_control">>}
    /\ call.oret # "S_OK" \/ call.env = "query_fails"

SlotsOf(fn) ==
    IF fn = "GetSessionEnumerator" THEN {"GetSession"}
    ELSE {"GetProcessId", "IsSystemSoundsSession"}

\* C32: after a failed acquisition the process runs on, the slots of the
\* call are unresolved and the host got what the original returns.
C32_FailedAcquireForwards ==
    AcquireFailed =>
        /\ ps.state = "running"
        /\ \A slot \in SlotsOf(call.fn) : hk.optr[slot] = "null" /\ slot \notin hk.active
        /\ call.fwd[Len(call.fwd)] \in {<<"SessionEnum">>, <<"Session">>}
        /\ call.ret = call.oret

(***************************************************************************)
(* C33: version-info loads and version-string queries.                     *)
(***************************************************************************)
\* The display names configured for a file: the values of the alias keys
\* that equal its image name without regard to case.
AliasesOf(file_name) ==
    IF ~cm.app_aliases.has THEN {}
    ELSE {cm.app_aliases.val[i].v : i \in
            {j \in 1..Len(cm.app_aliases.val) :
               lstrcmpiW_equal(cm.app_aliases.val[j].k, file_name)}}

UnderStringFileInfo(lpSubBlock) ==
    /\ Len(lpSubBlock) >= Len(StringFileInfo)
    /\ SubSeq(lpSubBlock, 1, Len(StringFileInfo)) = StringFileInfo

\* A load for a file with an alias leaves that alias to be returned, any
\* other load leaves none.
LoadSelectsAlias ==
    call'.fn = "GetFileVersionInfoW" =>
        IF AliasesOf(call'.name.val) # {}
        THEN file_version_buffer' \in AliasesOf(call'.name.val) \ {<<>>}
        ELSE file_version_buffer' = <<>>

\* A query under \StringFileInfo after such a load returns the alias without
\* the original; every other query returns the original's result.
QueryAnswers ==
    call'.fn = "VerQueryValueW" =>
        IF UnderStringFileInfo(call'.args[1]) /\ file_version_buffer # <<>>
        THEN /\ call'.fwd = <<>>
             /\ call'.ret = "TRUE"
             /\ call'.name = [has |-> TRUE, val |-> file_version_buffer]
        ELSE /\ call'.fwd = <<call'.args>>
             /\ call'.ret = call'.oret
             /\ ~call'.name.has

\* C33: over any interleaving of version-info loads and version-string
\* queries, a query under \StringFileInfo returns the configured alias iff
\* the most recent load was for a file whose image name equals an alias key
\* without regard to case; after a load for a file without alias, or without
\* alias map, and outside \StringFileInfo every query returns the
\* original's result.
C33_AliasIffLastLoadMatches ==
    [][LoadSelectsAlias /\ QueryAnswers /\
       (call'.fn = "VerQueryValueW" => file_version_buffer' = file_version_buffer)]_vars

(***************************************************************************)
(* C34: the persisted size when the product variant is not known.          *)
(***************************************************************************)
FlavorUnknown(c) == c.fn \in {"reg_get_wnd_size", "reg_save_wnd_size"} /\ ~c.args[1].has

\* C34: when the running product variant cannot be determined,
\* reg_get_wnd_size returns false without opening any registry key and
\* leaves its outputs unchanged, and reg_save_wnd_size returns without
\* creating or writing any key.
C34_UnknownFlavorTouchesNothing ==
    [][FlavorUnknown(call') =>
          /\ registry' = registry
          /\ call'.fn = "reg_get_wnd_size" =>
                (call'.fwd = <<>> /\ call'.ret = "false" /\ ~call'.out.has)
          /\ call'.fn = "reg_save_wnd_size" => call'.ret = "failed"]_vars

(***************************************************************************)
(* C35: the context of a window is read only while it is tracked.          *)
(***************************************************************************)
\* C35: for any order of messages, including display-change, sizing,
\* erase-background and destroy messages before the creation message, after
\* the destruction was handled and a second destroy message, no handler of
\* hk_WndProc_main reads the context of a window that is not tracked.
C35_ContextReadWhileTracked ==
    \A i \in 1..Len(dispatch.reads) : dispatch.reads[i]

(***************************************************************************)
(* C36: hook transactions after a failed installation.                     *)
(***************************************************************************)
\* C36: after a failed hook installation (a failed attach in apply_hooks, a
\* failed thread update or attach in hook_single_fn) no transaction is left
\* open, so that a later hook_single_fn can begin its own transaction and
\* install its hook.
C36_NoTransactionLeftOpen == ps.state = "running" => ~hk.pending

(***************************************************************************)
(* C37: which ReleaseDC calls reach the original.                          *)
(***************************************************************************)
\* The host released the device context it held for the window.
Released(hwnd) == dcs[hwnd] # "none" /\ dcs'[hwnd] = "none"

\* C37: over any interleaving of GetDC / ReleaseDC with a window becoming
\* tracked and untracked, a ReleaseDC call reaches the original ReleaseDC
\* iff the device context released was obtained from the original GetDC:
\* the off-screen device context never reaches it, and a device context of
\* the original is never swallowed.
C37_ReleaseMatchesAcquire ==
    [][\A hwnd \in DcWindows :
          Released(hwnd) => (ev'.orig <=> dcs[hwnd] = "window_dc")]_vars

(***************************************************************************)
(* C38: the range of the recorded current size.                            *)
(***************************************************************************)
\* The current size w records is inside [logical / 2, logical] on both axes.
SizeInRange(w) ==
    /\ w.default_cx \div 2 <= w.cur_cx /\ w.cur_cx <= w.default_cx
    /\ w.default_cy \div 2 <= w.cur_cy /\ w.cur_cy <= w.default_cy

\* C38 as stated: in every state after the creation of the primary window,
\* through any sequence of creation (with arbitrary contents of the
\* persisted store), sizing, size-change and destruction events, the
\* recorded current size is inside [logical / 2, logical] on both axes.
C38_CurrentSizeInRange == get_hwnd_main(wm) = "main" => SizeInRange(wm)

\* The step records the persisted pair the creation adopts.
AdoptsPersisted ==
    /\ ev'.msg = "WM_CREATE"
    /\ restores(ev'.opt, ev'.reg)
    /\ wm'.cur_cx = ev'.reg.w /\ wm'.cur_cy = ev'.reg.h

\* The step records the client size a size-change event reports.
RecordsReported ==
    /\ ev'.msg = "WM_SIZE"
    /\ wm'.cur_cx = ev'.size.w /\ wm'.cur_cy = ev'.size.h

\* The step changes neither the logical nor the current size.
KeepsSizes ==
    /\ wm'.cur_cx = wm.cur_cx /\ wm'.cur_cy = wm.cur_cy
    /\ wm'.default_cx = wm.default_cx /\ wm'.default_cy = wm.default_cy

\* C38, amended: a creation that adopts no persisted pair and every sizing
\* event of the bottom-right corner leave the recorded current size inside
\* [logical / 2, logical]; a persisted pair adopted at creation and the
\* client size of a size-change event are recorded as they are; every other
\* event leaves the recorded size as it was.
C38_InRangeUnlessAdoptedOrReported ==
    [][get_hwnd_main(wm') = "main" =>
          \/ AdoptsPersisted
          \/ RecordsReported
          \/ KeepsSizes
          \/ /\ SizeInRange(wm')
             /\ \/ ev'.msg = "WM_CREATE"
                \/ ev'.msg = "WM_SIZING" /\ ev'.wparam = "WMSZ_BOTTOMRIGHT"]_vars

\* A window higher than wide was dragged by its corner to its smallest
\* width: the recorded size is inside the range, its height on the lower
\* bound.
C38_Witness ==
    /\ get_hwnd_main(wm) = "main"
    /\ ev.msg = "WM_SIZING"
    /\ ev.wparam = "WMSZ_BOTTOMRIGHT"
    /\ SizeInRange(wm)
    /\ wm.cur_cx < wm.default_cx
    /\ wm.default_cx < wm.default_cy
    /\ wm.cur_cy = wm.default_cy \div 2

(***************************************************************************)
(* C39: the messages hk_WndProc_main sends to its own window.              *)
(***************************************************************************)
\* No message is being handled twice at the same time.
NoMessageTwice ==
    \A i \in 1..Len(dispatch.stack), j \in 1..Len(dispatch.stack) :
        i < j => dispatch.stack[i].msg # dispatch.stack[j].msg

\* At most three handlers are nested, and at most four are entered for one
\* message of the host (display-change: itself, erase-background, paint and
\* the timer that paint sends).
ChainBounded == Len(dispatch.stack) <= 3 /\ dispatch.entered <= 4

\* C39: the messages the hook sends to itself (display-change sends
\* erase-background and paint; paint, sizing and mouse-move-with-button send
\* the refresh timer message) form no cycle, and every chain of them ends
\* after a bounded number of steps, given that the original procedure
\* returns.
C39_ChainsEnd ==
    /\ [](NoMessageTwice /\ ChainBounded)
    /\ (dispatch.stack # <<>>) ~> (dispatch.stack = <<>>)

\* The timer sent by the paint handler that display-change entered.
C39_Witness ==
    /\ Len(dispatch.stack) = 3
    /\ dispatch.stack[1].msg = "WM_DISPLAYCHANGE"
    /\ dispatch.stack[2].msg = "WM_PAINT"
    /\ dispatch.stack[3].msg = "WM_TIMER"
    /\ dispatch.entered = 4

(***************************************************************************)
(* C40: the scroll step the thunk multiplies with.                         *)
(***************************************************************************)
BothStepsConfigured == cm.fader_shift_scroll_step.has /\ cm.fader_scroll_step.has

\* hk_WndProc_main is handling a mouse-wheel message: the original procedure
\* is called for it before the handler returns.
HandlingWheel ==
    /\ dispatch.stack # <<>>
    /\ dispatch.stack[Len(dispatch.stack)].msg = "WM_MOUSEWHEEL"

ShiftHeld == dispatch.stack[Len(dispatch.stack)].wparam = "VK_SHIFT"

\* The step enters the handler of a mouse-wheel message.
EntersWheel ==
    /\ Len(dispatch'.stack) > Len(dispatch.stack)
    /\ dispatch'.stack[Len(dispatch'.stack)].msg = "WM_MOUSEWHEEL"

\* C40: while the original procedure handles a mouse-wheel message,
\* scroll_value is the configured shift step if Shift is held and the normal
\* step otherwise, stored before the original is called; if one of the two
\* steps is not configured it keeps its previous value, 3.0 from the start;
\* no other event changes it.
C40_ScrollStepFollowsShift ==
    /\ []((HandlingWheel /\ BothStepsConfigured) =>
            scroll_value = IF ShiftHeld THEN cm.fader_shift_scroll_step.val
                           ELSE cm.fader_scroll_step.val)
    /\ [](~BothStepsConfigured => scroll_value = scroll_value0)
    /\ [][(~EntersWheel \/ ~BothStepsConfigured) => scroll_value' = scroll_value]_vars

\* Shift is held while the wheel turns: the shift step, which is neither the
\* normal step nor the value from the start.
C40_Witness ==
    /\ HandlingWheel
    /\ BothStepsConfigured
    /\ ShiftHeld
    /\ scroll_value = cm.fader_shift_scroll_step.val
    /\ scroll_value # cm.fader_scroll_step.val
    /\ scroll_value # scroll_value0
====
